---- MODULE Spec2Model ----
(***************************************************************************)
(* A model of the PaperBench task orchestrator.                            *)
(*                                                                         *)
(*   Spec    one run of BasePBSolver.run with the BasicAgentSolver agent   *)
(*           phase: sandbox lease with retry, solver setup, agent loop     *)
(*           with the light heartbeat, the periodic heavy uploads and the  *)
(*           final upload, then grading.  Every action is one step of one  *)
(*           asyncio task between two suspension points.                   *)
(*   SpecRC  a ReleasableComputer driven by arbitrary callers.             *)
(***************************************************************************)
EXTENDS Integers, Sequences, FiniteSets, TLC

VARIABLES
    \* one BashOutputStreamer and the module's bash_output_queue (SpecStream)
    out_queue,          \* bash_output_queue, oldest first
    s_pc,               \* position of the _sender_loop task
    s_item,             \* the output the sender holds
    sent_ok,            \* sessions whose final output the backend has accepted
    shutdown_event,     \* BashOutputStreamer.shutdown_event
    d_pc,               \* position of the shutdown() call
    d_waits,            \* 0.5 s sleeps of shutdown's wait loop
    at_shutdown,        \* sessions whose final output was queued when shutdown() began
    send_fails,         \* sends the backend has refused
    sessions,           \* state of each bash session's streaming
    \* the interactive agent: runner.main, BaseAgent and MemoryManager (SpecAgent)
    store,              \* LocalMessageStore.messages
    r_pc,               \* position of runner.main in its loop
    sent,               \* the in-context messages of the last LLM call
    keep_recent_messages, \* compression_config.keep_recent_messages
    next_mid,           \* Message objects created so far
    next_use,           \* tool_use blocks the LLM has returned so far
    n_compactions,      \* calls of _execute_compression
    compress_log,       \* how the last run_turn's compression ended
    llm_calls,          \* run_turn calls that reached the LLM
    n_inputs,           \* lines the user has typed
    \* one BashSessionManager and the tasks that call it (SpecMgr)
    windows,            \* BashSessionManager.windows: window name to window, 0 when absent
    procs,              \* the live bash processes, each with the window name it was started for
    started,            \* BashWindow objects created so far
    lock_depth,         \* acquisitions of the RLock not yet released
    mpc,                \* what each calling task is doing
    m_calls,            \* calls made so far
    \* one BashWindow and the Bash tool calls on it (SpecBash)
    w_status,           \* BashWindow.current_status
    w_monitor,          \* position of monitor_task, "none" when there is none or it is done
    w_shell,            \* the commands the shell has received and not finished, oldest first
    w_writes,           \* what run_command wrote to the shell, with the window's state then
    b_pc,               \* position of the Bash tool call in progress
    b_calls,            \* Bash tool calls so far
    b_result,           \* what the last Bash tool call returned
    \* one file under ToolState and the file tools (SpecFile)
    fclock,             \* time.time() of the tool process, in milliseconds
    f_exists,           \* os.path.exists(file_path)
    f_content,          \* the file's content, as the number of the write that made it
    f_mtime,            \* os.path.getmtime(file_path), in milliseconds
    f_writes,           \* writes to the file so far, by anyone
    files_read,         \* file_path is in ToolState._files_read
    read_time,          \* ToolState._file_read_timestamps[file_path], 0 when absent
    stale,              \* history: the file was modified after it was last marked as read
    f_ops,              \* tool calls and outside modifications so far
    f_result,           \* what the last tool call ended with
    \* ---- configuration and clock
    cfg,                \* solver and runtime configuration of the run
    now,                \* time.time(), in seconds
    \* ---- BasePBSolver.run (the main task)
    pc,                 \* position of the main task
    attempt_number,     \* tenacity's attempt counter
    leaseLog,           \* outcome of every start attempt so far
    live,               \* is the leased sandbox running
    stages,             \* stage boundaries passed, in order
    setup_outcome,      \* SetupOutcome.success of _setup: "none" before it returns
    existing_run,       \* what check_for_existing_run found in the RunRecord
    outcome,            \* how run() ended
    \* ---- RunRecord in the blob store
    statusExists,       \* status.json exists
    tars,               \* number of **/*.tar.gz archives
    \* ---- _execute_agent_and_periodically_upload_logs
    start_time,
    mwake,              \* when the main task's sleep(60) ends
    exc,                \* exception propagating through the main task
    loopExit,           \* how the try block was left
    agent_output,       \* what _run_save_and_check returns
    cancels,            \* upstream cancellations delivered so far
    \* ---- _execute_agent (agent_task)
    apc,
    num_steps,
    total_retry_time,
    upload_task,        \* index in uploads of the loop's upload_task, 0 = None
    last_time_uploaded,
    \* ---- heavy uploads (detached tasks and the final upload)
    uploads,
    \* ---- start_periodic_light_log_upload (light_periodic_upload_task)
    lpc,
    lwake,
    \* ---- ReleasableComputer and its delegate (SpecRC)
    rc_released,        \* ReleasableComputer._released
    rc_delegate,        \* ReleasableComputer._delegate is not None
    rc_stack,           \* the exit stack still holds the leased context
    d_commands,         \* operations the delegate has received
    d_stopped,          \* number of delegate.stop() calls
    ctx_exits,          \* number of times the leased context was exited
    rpc,                \* the release() call of each caller
    opLog,              \* the operations requested through the wrapper
    \* ---- PaperBench.get_instances (SpecEnum)
    paper_ids,          \* the paper ids of the split, in file order
    n_tries,
    resume_no_extend,
    group_run_ids,      \* what get_existing_run_ids returned
    existing_run_ids,   \* the set the loop pops reused run_ids from
    tasks,              \* the list get_instances builds
    attempt_idx,
    paper_idx,          \* position of the inner loop in paper_ids
    minted,             \* number of create_run_id calls so far
    epc,                \* "loop" or "returned"
    \* the message history of one agent loop
    messages,           \* the history, a sequence of chat messages
    num_calls,          \* tool-call ids handed out so far
    num_turns,          \* passes of the loop so far
    num_prunes,         \* prune_messages calls so far
    last_op,            \* what changed the history last
    num_msgs,           \* message objects created so far
    prune_input,        \* the list given to the last prune_messages call, as
                        \* that call left it
    \* the evaluation summary
    results,            \* what the runs of the evaluation ended with
    run_health,         \* the "run_health" part of get_full_summary's report
    \* one use of start_computer_with_retry by some caller
    retry_types,        \* exception_types: the types that trigger a retry
    lease_pc,           \* "attempt", "held" (yielded to the caller) or "done"
    lease_attempt,      \* tenacity's attempt_number
    lease_log,          \* what each computer_runtime.run(...) entry ended with
    running,            \* sandboxes started and not torn down
    body_exc,           \* the exception the caller's code raised, or "None"
    lease_exc           \* what the caller's "async with" ended with

runVars == <<cfg, now, pc, attempt_number, leaseLog, live, stages, setup_outcome,
             existing_run, outcome,
             statusExists, tars, start_time, mwake, exc, loopExit, agent_output,
             cancels, apc, num_steps, total_retry_time, upload_task,
             last_time_uploaded, uploads, lpc, lwake>>

rcVars == <<rc_released, rc_delegate, rc_stack, d_commands, d_stopped, ctx_exits,
            rpc, opLog>>

enumVars == <<paper_ids, n_tries, resume_no_extend, group_run_ids,
              existing_run_ids, tasks, attempt_idx, paper_idx, minted, epc>>

pruneVars == <<messages, num_calls, num_turns, num_prunes, last_op, num_msgs,
               prune_input>>

sumVars == <<results, run_health>>

retryVars == <<retry_types, lease_pc, lease_attempt, lease_log, running,
               body_exc, lease_exc>>

fileVars == <<fclock, f_exists, f_content, f_mtime, f_writes, files_read, read_time, stale, f_ops, f_result>>

bashVars == <<w_status, w_monitor, w_shell, w_writes, b_pc, b_calls, b_result>>

mgrVars == <<windows, procs, started, lock_depth, mpc, m_calls>>

agentVars == <<store, r_pc, sent, keep_recent_messages, next_mid, next_use,
               n_compactions, llm_calls, n_inputs, compress_log>>

streamVars == <<out_queue, s_pc, s_item, sent_ok, shutdown_event, d_pc, d_waits,
                at_shutdown, send_fails, sessions>>

vars == <<runVars, rcVars, enumVars, pruneVars, sumVars,
         retryVars, fileVars, bashVars, mgrVars, agentVars,
         streamVars>>

\* the variables each specification leaves alone
outsideRun == <<rcVars, enumVars, pruneVars, sumVars, retryVars,
                fileVars, bashVars, mgrVars, agentVars, streamVars>>
outsideRC == <<runVars, enumVars, pruneVars, sumVars, retryVars,
               fileVars, bashVars, mgrVars, agentVars, streamVars>>
outsideEnum == <<runVars, rcVars, pruneVars, sumVars, retryVars,
                 fileVars, bashVars, mgrVars, agentVars, streamVars>>
outsidePrune == <<runVars, rcVars, enumVars, sumVars, retryVars,
                  fileVars, bashVars, mgrVars, agentVars, streamVars>>
outsideSum == <<runVars, rcVars, enumVars, pruneVars, retryVars,
                fileVars, bashVars, mgrVars, agentVars, streamVars>>
outsideRetry == <<runVars, rcVars, enumVars, pruneVars, sumVars,
                  fileVars, bashVars, mgrVars, agentVars, streamVars>>
outsideFile == <<runVars, rcVars, enumVars, pruneVars, sumVars,
                 retryVars, bashVars, mgrVars, agentVars, streamVars>>
outsideBash == <<runVars, rcVars, enumVars, pruneVars, sumVars,
                 retryVars, fileVars, mgrVars, agentVars, streamVars>>
outsideMgr == <<runVars, rcVars, enumVars, pruneVars, sumVars,
                retryVars, fileVars, bashVars, agentVars, streamVars>>
outsideAgent == <<runVars, rcVars, enumVars, pruneVars, sumVars,
                  retryVars, fileVars, bashVars, mgrVars, streamVars>>
outsideStream == <<runVars, rcVars, enumVars, pruneVars, sumVars,
                   retryVars, fileVars, bashVars, mgrVars, agentVars>>

(***************************************************************************)
(* Bounds of the model and constants of the program.                       *)
(***************************************************************************)
None == 0 - 1                 \* Python's None for an optional int

MaxTicks == 3                 \* the clock stops after MaxTicks ticks
MaxAgentSteps == 2            \* requests the model lets an unbounded loop make
MaxCancels == 1               \* upstream cancellations of one run
MaxOps == 3                   \* operations requested through one wrapper
MaxReleaseCalls == 2          \* release() calls of one caller
NumCallers == 2               \* tasks that hold one wrapper
MaxTries == 2                 \* largest n_tries of an enumeration
MaxTurns == 3                 \* passes of the agent loop that add messages
MaxToolCalls == 2             \* tool calls of one assistant message
MaxPrunes == 2                \* prune_messages calls on one history
MaxResults == 3               \* runs of one evaluation

max_attempts == 3             \* start_computer_with_retry's default
WatchSleep == 60              \* asyncio.sleep(60) of the watch loop
LightSleep == 300             \* asyncio.sleep(300) of the heartbeat

TickLen == LightSleep \div 2   \* the clock advances in steps of TickLen seconds
MaxTime == MaxTicks * TickLen

ExceptionKinds == {"AlcatrazException", "OtherException"}

\* the configurations explored: optional ints are None or a small value
TimeLimits == {None, TickLen}
StepLimits == {None, 1}
UploadIntervalMessages == {None, 2}
\* the seconds interval is not a divisor of the clock's steps
UploadIntervalSeconds == {None, TickLen + TickLen \div 3}
ExceptionTypes == {{}, {"AlcatrazException"}}

AllConfigs ==
    [time_limit : TimeLimits,
     max_steps : StepLimits,
     use_real_time_limit : {TRUE},
     upload_interval_messages : UploadIntervalMessages,
     upload_interval_seconds : UploadIntervalSeconds,
     exception_types : ExceptionTypes]

\* the runtime configuration is varied under one solver configuration, and
\* at most one of the two upload intervals is set
Configs ==
    {c \in AllConfigs :
        /\ c.upload_interval_messages = None \/ c.upload_interval_seconds = None
        /\ c.exception_types = {} =>
              /\ c.time_limit = None
              /\ c.max_steps = None
              /\ c.upload_interval_messages = None
              /\ c.upload_interval_seconds = None}

recV == <<statusExists, tars>>
phaseV == <<start_time, mwake, exc, loopExit, agent_output>>
agentV == <<apc, num_steps, total_retry_time, upload_task, last_time_uploaded>>
lightV == <<lpc, lwake>>
leaseV == <<attempt_number, leaseLog>>
startV == <<leaseV, setup_outcome, existing_run>>

(***************************************************************************)
(* Results.                                                                *)
(***************************************************************************)
\* AgentOutput; present = FALSE stands for "agent_output is None"
NoOutput == [present |-> FALSE, error_msg |-> "None", status_exists |-> FALSE]

\* AgentOutput(..., error_msg=None, status_exists=...) as _run_agent and
\* check_for_existing_run build it
AgentOutput(status_exists) ==
    [present |-> TRUE, error_msg |-> "None", status_exists |-> status_exists]

NoGrade == [grade_kind |-> "none", score |-> 0, grader_log |-> "",
            submission_exists |-> FALSE, judged |-> FALSE,
            agent_output |-> NoOutput]

\* PBTask.early_exit_grade(grader_log): the zero grade of a run that ended early
EarlyExitGrade(grader_log) ==
    [grade_kind |-> "early_exit", score |-> 0, grader_log |-> grader_log,
     submission_exists |-> FALSE, judged |-> FALSE, agent_output |-> NoOutput]

\* run() yielded FinalResult(grade)
FinalResult(grade) == [kind |-> "final_result", exc |-> "None", grade |-> grade]

\* run() ended with an exception propagating to its caller
Raised(kind) == [kind |-> "exception", exc |-> kind, grade |-> NoGrade]

Running == [kind |-> "none", exc |-> "None", grade |-> NoGrade]

(***************************************************************************)
(* start_computer_with_retry: tenacity's AsyncRetrying around              *)
(* computer_runtime.run.                                                   *)
(***************************************************************************)
\* variant: a predicate that retries on every exception
M_RetryIfExceptionType(kind, exception_types) == TRUE

\* retry_if_exception_type(exception_types if exception_types else ())
RetryIfExceptionType(kind, exception_types) == kind \in exception_types

\* variant: a stop condition that is off by one
M_StopAfterAttempt(n) == n > max_attempts

\* stop_after_attempt(max_attempts)
StopAfterAttempt(n) == n >= max_attempts

\* One attempt: computer_runtime.run(computer_config) starts the sandbox or
\* fails with an exception of some kind; tenacity then retries, or re-raises
\* the attempt's own exception (reraise=True).
StartComputerAttempt ==
    /\ pc = "lease"
    /\ \E res \in {"ok"} \cup ExceptionKinds :
         /\ leaseLog' = Append(leaseLog, res)
         /\ IF res = "ok"
            THEN /\ live' = TRUE
                 /\ pc' = "setup"
                 /\ stages' = Append(stages, "setup_start")
                 /\ UNCHANGED <<attempt_number, outcome>>
            ELSE IF /\ RetryIfExceptionType(res, cfg.exception_types)
                    /\ ~StopAfterAttempt(attempt_number)
                 THEN /\ attempt_number' = attempt_number + 1
                      /\ UNCHANGED <<pc, live, stages, outcome>>
                 ELSE /\ pc' = "done"
                      /\ outcome' = Raised(res)
                      /\ UNCHANGED <<attempt_number, live, stages>>
    /\ UNCHANGED <<cfg, now, setup_outcome, existing_run, recV, phaseV, cancels,
                   agentV, uploads, lightV>>
    /\ UNCHANGED outsideRun

(***************************************************************************)
(* BasePBSolver._setup and the entry of the agent phase.                   *)
(***************************************************************************)
\* run() leaves the AsyncExitStack: the leased context is exited
CloseStack == live' = FALSE

\* run() after a successful setup: step 2, the agent phase
AfterSetup ==
    /\ pc' = "agent_check"
    /\ stages' = stages \o <<"setup_end", "agent_start">>
    /\ UNCHANGED <<live, outcome>>

\* variant: a run() that does not test setup_outcome.success
M_SetupEarlyExit == AfterSetup

\* run() after a failed setup: "yield FinalResult(grade=task.early_exit_grade(
\* grader_log=setup_outcome.err_msg))" and "return", which leaves the stack
SetupEarlyExit ==
    /\ pc' = "done"
    /\ outcome' = FinalResult(EarlyExitGrade("Solver-specific computer setup failed"))
    /\ CloseStack
    /\ UNCHANGED stages

\* _setup: _setup_computer returns, or raises an Exception that _setup turns
\* into SetupOutcome(success=False); run() then tests setup_outcome.success.
Setup ==
    /\ pc = "setup"
    /\ \E success \in BOOLEAN :
         /\ setup_outcome' = IF success THEN "ok" ELSE "failed"
         /\ IF success THEN AfterSetup ELSE SetupEarlyExit
    /\ UNCHANGED <<cfg, now, leaseV, existing_run, recV, phaseV, cancels, agentV, uploads, lightV>>
    /\ UNCHANGED outsideRun

\* _run_save_and_check returns agent_output and run() goes on to _grade
ToGrade(ao) ==
    /\ agent_output' = ao
    /\ pc' = "grade"
    /\ stages' = stages \o <<"agent_end", "grade_start">>
    /\ UNCHANGED <<live, outcome>>

\* variant: a _run_save_and_check without the handler, so that the exception
\* leaves run()
M_OnAgentException ==
    /\ pc' = "done"
    /\ outcome' = Raised("Error")
    /\ CloseStack
    /\ UNCHANGED <<agent_output, stages>>

\* _run_save_and_check: "except Exception" logs the exception of _run_agent
\* and returns agent_output, which is still None
OnAgentException == ToGrade(NoOutput)

\* check_for_existing_run has not looked yet
NotChecked == [checked |-> FALSE, status_exists |-> FALSE, num_tars |-> 0]

\* variant: a test that wants more than one archive
M_ExistingRun(status_exists, num_tars) == status_exists /\ num_tars > 1

\* "if status_exists and num_tars >= 1"
ExistingRun(status_exists, num_tars) == status_exists /\ num_tars >= 1

\* check_for_existing_run: status.json and at least one archive mean the
\* agent already ran; its AgentOutput is rebuilt from status.json and
\* _run_agent returns it at once
CheckForExistingRun ==
    /\ pc = "agent_check"
    /\ existing_run' = [checked |-> TRUE, status_exists |-> statusExists,
                        num_tars |-> tars]
    /\ IF ExistingRun(statusExists, tars)
       THEN ToGrade(AgentOutput(TRUE))
       ELSE /\ pc' = "agent_prep"
            /\ UNCHANGED <<agent_output, stages, live, outcome>>
    /\ UNCHANGED <<cfg, now, leaseV, setup_outcome, recV, start_time, mwake, exc,
                   loopExit, cancels, agentV, uploads, lightV>>
    /\ UNCHANGED outsideRun

\* _run_agent up to the first sleep of the watch loop: sanity_check_docker and
\* get_instructions use the sandbox and may raise; then the timeout scope is
\* entered, the heartbeat task and agent_task are created.
PrepareAgent ==
    /\ pc = "agent_prep"
    /\ \/ /\ start_time' = now
          /\ lpc' = "sleeping"
          /\ lwake' = now + LightSleep
          /\ apc' = "start"
          /\ mwake' = now + WatchSleep
          /\ pc' = "watch"
          /\ UNCHANGED <<agent_output, stages, exc, live, outcome>>
       \/ /\ exc' = "Error"
          /\ OnAgentException
          /\ UNCHANGED <<start_time, lpc, lwake, apc, mwake>>
    /\ UNCHANGED <<cfg, now, startV, recV, loopExit, cancels,
                   num_steps, total_retry_time, upload_task, last_time_uploaded,
                   uploads>>
    /\ UNCHANGED outsideRun

(***************************************************************************)
(* Heavy uploads: upload_heavy_logs.                                       *)
(***************************************************************************)
\* upload_heavy_logs begins: the timestamp that names the directory
\* submissions/<timestamp>/ is the clock read to the second
HeavyUpload(kind, num_messages) ==
    [kind |-> kind, st |-> "running", num_messages |-> num_messages,
     timestamp |-> now]

UploadFinished(u) == u.st \in {"done", "failed", "cancelled"}

\* One step of upload_heavy_logs: upload_sources tars the sandbox directories
\* and writes submission.tar.gz, then upload_log_info writes log.json.  Either
\* may raise; upload_sources needs the sandbox.  The model follows the
\* detached uploads until run() has ended.
UploadStep(i) ==
    /\ i \in 1..Len(uploads)
    /\ pc # "done"
    /\ \/ /\ uploads[i].st = "running"
          /\ live
          /\ uploads' = [uploads EXCEPT ![i].st = "tar"]
          /\ tars' = tars + 1
       \/ /\ uploads[i].st = "tar"
          /\ uploads' = [uploads EXCEPT ![i].st = "done"]
          /\ UNCHANGED tars
       \/ /\ uploads[i].st \in {"running", "tar"}
          /\ uploads' = [uploads EXCEPT ![i].st = "failed"]
          /\ UNCHANGED tars
    /\ UNCHANGED <<cfg, now, pc, startV, live, stages, outcome, statusExists,
                   phaseV, cancels, agentV, lightV>>
    /\ UNCHANGED outsideRun

(***************************************************************************)
(* _execute_agent_and_periodically_upload_logs: the watch loop, the        *)
(* handlers, the finally block and the final upload.                       *)
(***************************************************************************)
AgentDone == apc \in {"returned", "timeout_error", "error", "cancelled"}
LightDone == lpc \in {"failed", "cancelled"}

\* variant: "one last upload" placed after "await agent_task" inside the try
\* block, where a timeout or a cancellation skips it
M_LeaveFinally(e) ==
    IF e # "None"
    THEN /\ OnAgentException
         /\ UNCHANGED uploads
    ELSE IF loopExit' = "finished"
         THEN /\ uploads' = Append(uploads, HeavyUpload("final", num_steps))
              /\ pc' = "final_upload"
              /\ UNCHANGED <<agent_output, stages, live, outcome>>
         ELSE /\ ToGrade(AgentOutput(statusExists))
              /\ UNCHANGED uploads

\* after the finally block: a propagating exception reaches the handler of
\* _run_save_and_check, otherwise "one last upload" starts, with the main
\* task's num_steps (-1 unless "await agent_task" returned)
LeaveFinally(e) ==
    LET main_num_steps == IF loopExit' = "finished" THEN num_steps ELSE 0 - 1 IN
    IF e # "None"
    THEN /\ OnAgentException
         /\ UNCHANGED uploads
    ELSE /\ uploads' = Append(uploads, HeavyUpload("final", main_num_steps))
         /\ pc' = "final_upload"
         /\ UNCHANGED <<agent_output, stages, live, outcome>>

\* the locals of a task that has ended, and the timers of a task that no
\* longer sleeps, are gone
DropAgentFrame ==
    /\ total_retry_time' = 0
    /\ upload_task' = 0
    /\ last_time_uploaded' = 0

\* cancel_async_task(light_periodic_upload_task), up to its await
CancelLight(e) ==
    /\ lwake' = 0
    /\ IF ~LightDone
       THEN /\ lpc' = "cancelled"
            /\ pc' = "fin_light"
            /\ UNCHANGED <<uploads, agent_output, stages, live, outcome>>
       ELSE /\ LeaveFinally(e)
            /\ UNCHANGED lpc

\* variant: a finally block that cancels the heartbeat only
M_CancelTasks(e) ==
    /\ mwake' = 0
    /\ UNCHANGED <<apc, total_retry_time, upload_task, last_time_uploaded>>
    /\ CancelLight(e)

\* the finally block: cancel_async_task(agent_task), up to its await.  A task
\* that is cancelled raises CancelledError at its own suspension point: none
\* of _execute_agent's handlers catches it.
CancelTasks(e) ==
    /\ mwake' = 0
    /\ DropAgentFrame
    /\ IF ~AgentDone
       THEN /\ apc' = "cancelled"
            /\ pc' = "fin_agent"
            /\ UNCHANGED <<lpc, lwake, uploads, agent_output, stages, live, outcome>>
       ELSE /\ CancelLight(e)
            /\ UNCHANGED apc

\* The watch loop wakes from sleep(60) and tests agent_task.done(); then
\* "num_steps = await agent_task" returns or raises the agent's exception.
WatchWake ==
    /\ pc = "watch"
    /\ now >= mwake
    /\ IF AgentDone
       THEN LET le == CASE apc = "returned" -> "finished"
                        [] apc = "timeout_error" -> "timeout"
                        [] OTHER -> "agent_error"
                e == IF apc = "error" THEN "Error" ELSE "None"
            IN /\ loopExit' = le
               /\ exc' = e
               /\ CancelTasks(e)
       ELSE IF lpc = "failed"
            THEN /\ loopExit' = "heartbeat_error"
                 /\ exc' = "Error"
                 /\ CancelTasks("Error")
            ELSE /\ mwake' = now + WatchSleep
                 /\ UNCHANGED <<loopExit, exc, apc, lpc, lwake, pc, uploads,
                                agent_output, stages, total_retry_time,
                                upload_task, last_time_uploaded, live, outcome>>
    /\ UNCHANGED <<cfg, now, startV, recV, start_time, cancels, num_steps>>
    /\ UNCHANGED outsideRun

TimeoutDue == cfg.time_limit # None /\ now >= start_time + cfg.time_limit

\* asyncio.timeout(self.time_limit) expires while the main task sleeps: the
\* CancelledError it injects leaves the scope as TimeoutError
TimeoutExpire ==
    /\ pc = "watch"
    /\ TimeoutDue
    /\ loopExit' = "timeout"
    /\ CancelTasks("None")
    /\ UNCHANGED <<cfg, now, startV, recV, start_time, exc, cancels, num_steps>>
    /\ UNCHANGED outsideRun

\* cancel_async_task(agent_task) returns: the shielded await ended
FinAgentWake ==
    /\ pc = "fin_agent"
    /\ UNCHANGED loopExit
    /\ CancelLight(exc)
    /\ UNCHANGED <<cfg, now, startV, recV, start_time, mwake, exc, cancels, agentV>>
    /\ UNCHANGED outsideRun

\* cancel_async_task(light_periodic_upload_task) returns
FinLightWake ==
    /\ pc = "fin_light"
    /\ UNCHANGED loopExit
    /\ LeaveFinally(exc)
    /\ UNCHANGED <<cfg, now, startV, recV, start_time, mwake, exc, cancels, agentV,
                   lightV>>
    /\ UNCHANGED outsideRun

\* "one last upload" returns or raises; _run_agent builds the AgentOutput and
\* _run_save_and_check writes metadata.json, or catches the exception
FinalUploadReturn ==
    /\ pc = "final_upload"
    /\ LET u == uploads[Len(uploads)]
       IN /\ u.st \in {"done", "failed"}
          /\ IF u.st = "done"
             THEN /\ ToGrade(AgentOutput(statusExists))
                  /\ UNCHANGED exc
             ELSE /\ OnAgentException
                  /\ exc' = "Error"
    /\ UNCHANGED <<cfg, now, startV, recV, start_time, mwake,
                   loopExit, cancels, agentV, uploads, lightV>>
    /\ UNCHANGED outsideRun

(***************************************************************************)
(* _execute_agent: the agent loop (agent_task).                            *)
(***************************************************************************)
\* _has_agent_finished
HasAgentFinished(n, retry_time) ==
    LET over_step_limit == cfg.max_steps # None /\ n > cfg.max_steps
        over_time_limit ==
            IF cfg.use_real_time_limit /\ cfg.time_limit # None
            THEN now - start_time - retry_time > cfg.time_limit
            ELSE IF cfg.time_limit # None
                 THEN now - start_time > cfg.time_limit
                 ELSE FALSE
    IN over_step_limit \/ over_time_limit

\* should_upload_periodic_heavy_logs
ShouldUploadPeriodicHeavyLogs(n, last) ==
    LET at_step_interval ==
            /\ cfg.upload_interval_messages # None
            /\ n % cfg.upload_interval_messages = 0
        at_time_interval ==
            /\ cfg.upload_interval_seconds # None
            /\ now > last + cfg.upload_interval_seconds
    IN at_step_interval \/ at_time_interval

\* variant: the reference time is the time of the upload itself
M_SnappedTime == now

\* the last_time_uploaded that optionally_upload_heavy_logs returns after
\* starting an upload: now, snapped to the start of the wall-clock interval
SnappedTime ==
    IF cfg.upload_interval_seconds # None
    THEN (now \div cfg.upload_interval_seconds) * cfg.upload_interval_seconds
    ELSE now

\* One pass of the loop from its test to the await of make_completer_request:
\* the test, num_steps += 1 and optionally_upload_heavy_logs, which starts a
\* detached upload task when one is due and returns None otherwise.
LoopIteration(n, retry_time, last) ==
    IF HasAgentFinished(n, retry_time)
    THEN /\ apc' = "returned"
         /\ num_steps' = n
         /\ last_time_uploaded' = last
         /\ UNCHANGED <<upload_task, uploads>>
    ELSE /\ apc' = "completing"
         /\ num_steps' = n + 1
         /\ IF ShouldUploadPeriodicHeavyLogs(n + 1, last)
            THEN /\ uploads' = Append(uploads, HeavyUpload("periodic", n + 1))
                 /\ upload_task' = Len(uploads) + 1
                 /\ last_time_uploaded' = SnappedTime
            ELSE /\ upload_task' = 0
                 /\ last_time_uploaded' = last
                 /\ UNCHANGED uploads

\* agent_task runs for the first time
AgentStart ==
    /\ apc = "start"
    /\ total_retry_time' = 0
    /\ LoopIteration(0, 0, now)
    /\ UNCHANGED <<cfg, now, pc, startV, live, stages, outcome, recV, phaseV,
                   cancels, lightV>>
    /\ UNCHANGED outsideRun

\* time the completer may report as spent retrying: no more than has passed
RetryTimes ==
    {0} \cup IF now - start_time - total_retry_time >= TickLen THEN {TickLen} ELSE {}

\* the except asyncio.TimeoutError handler: "if upload_task: await
\* asyncio.shield(upload_task)", then re-raise; the awaited upload's own
\* exception replaces the TimeoutError
AfterDrain ==
    IF upload_task # 0 /\ uploads[upload_task].st = "failed"
    THEN "error"
    ELSE "timeout_error"

\* make_completer_request returns or raises, the tool calls are handled, and
\* the loop runs up to its next await.
AgentResponse ==
    /\ apc = "completing"
    /\ \/ \* a response without submit, or a context-length error that is
          \* pruned away: the loop goes on
          /\ num_steps < MaxAgentSteps
          /\ \E r \in RetryTimes :
               /\ total_retry_time' = total_retry_time + r
               /\ LoopIteration(num_steps, total_retry_time + r, last_time_uploaded)
       \/ \* the submit tool was called: return num_steps
          /\ \E r \in RetryTimes : total_retry_time' = total_retry_time + r
          /\ apc' = "returned"
          /\ UNCHANGED <<num_steps, upload_task, last_time_uploaded, uploads>>
       \/ \* asyncio.TimeoutError out of the request
          /\ apc' = IF upload_task # 0 /\ ~UploadFinished(uploads[upload_task])
                    THEN "drain"
                    ELSE AfterDrain
          /\ UNCHANGED <<num_steps, total_retry_time, upload_task,
                         last_time_uploaded, uploads>>
       \/ \* any other exception out of the request
          /\ apc' = "error"
          /\ UNCHANGED <<num_steps, total_retry_time, upload_task,
                         last_time_uploaded, uploads>>
    /\ UNCHANGED <<cfg, now, pc, startV, live, stages, outcome, recV, phaseV,
                   cancels, lightV>>
    /\ UNCHANGED outsideRun

\* the shielded await of the handler ends with the upload
AgentDrained ==
    /\ apc = "drain"
    /\ UploadFinished(uploads[upload_task])
    /\ apc' = AfterDrain
    /\ UNCHANGED <<cfg, now, pc, startV, live, stages, outcome, recV, phaseV,
                   cancels, num_steps, total_retry_time, upload_task,
                   last_time_uploaded, uploads, lightV>>
    /\ UNCHANGED outsideRun

(***************************************************************************)
(* start_periodic_light_log_upload: the heartbeat task.                    *)
(***************************************************************************)
\* sleep(300) ends; upload_light_logs writes status.json, or raises and ends
\* the task with that exception
LightWake ==
    /\ lpc = "sleeping"
    /\ now >= lwake
    /\ \/ /\ statusExists' = TRUE
          /\ lwake' = now + LightSleep
          /\ UNCHANGED lpc
       \/ /\ lpc' = "failed"
          /\ UNCHANGED <<statusExists, lwake>>
    /\ UNCHANGED <<cfg, now, pc, startV, live, stages, outcome, tars, phaseV,
                   cancels, agentV, uploads>>
    /\ UNCHANGED outsideRun

(***************************************************************************)
(* The clock and the upstream canceller.                                   *)
(***************************************************************************)
\* a timer of the event loop is due
TimerDue ==
    \/ pc = "watch" /\ (now >= mwake \/ TimeoutDue)
    \/ lpc = "sleeping" /\ now >= lwake

\* time passes; only the watch loop, the agent loop and the timers read it
Tick ==
    /\ pc = "watch"
    /\ now < MaxTime
    /\ ~TimerDue
    /\ now' = now + TickLen
    /\ UNCHANGED <<cfg, pc, startV, live, stages, outcome, recV, phaseV, cancels,
                   agentV, uploads, lightV>>
    /\ UNCHANGED outsideRun

\* The caller of run() cancels the main task: CancelledError is raised at the
\* await the main task is suspended in.
UpstreamCancel ==
    /\ cancels < MaxCancels
    /\ cancels' = cancels + 1
    /\ \/ \* in sleep(60): caught by "except asyncio.CancelledError"
          /\ pc = "watch"
          /\ loopExit' = "cancelled"
          /\ CancelTasks("None")
       \/ \* in cancel_async_task: "except asyncio.CancelledError: pass"
          /\ pc = "fin_agent"
          /\ UNCHANGED loopExit
          /\ CancelLight(exc)
          /\ UNCHANGED <<apc, mwake, total_retry_time, upload_task,
                         last_time_uploaded>>
       \/ /\ pc = "fin_light"
          /\ UNCHANGED loopExit
          /\ LeaveFinally(exc)
          /\ UNCHANGED <<apc, lightV, mwake, total_retry_time, upload_task,
                         last_time_uploaded>>
       \/ \* in the final upload: nothing catches it, the upload is abandoned
          /\ pc = "final_upload"
          /\ uploads' = [uploads EXCEPT ![Len(uploads)].st =
                           IF @ \in {"done", "failed"} THEN @ ELSE "cancelled"]
          /\ pc' = "done"
          /\ outcome' = Raised("CancelledError")
          /\ CloseStack
          /\ UNCHANGED <<loopExit, apc, lightV, agent_output, stages, mwake,
                         total_retry_time, upload_task, last_time_uploaded>>
       \/ \* anywhere else in run(): nothing catches it
          /\ pc \in {"lease", "setup", "agent_prep", "grade", "reproduce", "judge"}
          /\ pc' = "done"
          /\ outcome' = Raised("CancelledError")
          /\ CloseStack
          /\ UNCHANGED <<loopExit, apc, lightV, agent_output, stages, uploads,
                         mwake, total_retry_time, upload_task, last_time_uploaded>>
    /\ UNCHANGED <<cfg, now, startV, recV, start_time, exc, num_steps>>
    /\ UNCHANGED outsideRun

(***************************************************************************)
(* BasePBSolver._grade around PBTask.grade.                                *)
(***************************************************************************)
\* _grade: a grade without judge_output is rebuilt as a zero grade that keeps
\* submission_exists; the agent's output is attached to the result
Grade(g, ao) ==
    IF ~g.judged
    THEN [grade_kind |-> "graded", score |-> 0, grader_log |-> "",
          submission_exists |-> g.submission_exists, judged |-> FALSE,
          agent_output |-> ao]
    ELSE [g EXCEPT !.agent_output = ao]

\* run() yields FinalResult(grade) after leaving the exit stack
FinishGrade(g) ==
    /\ outcome' = FinalResult(Grade(g, agent_output))
    /\ pc' = "done"
    /\ CloseStack

\* PBTask.grade starts: the agent's sandbox is released early; without a
\* submission archive the grade is zero and nothing else runs
GradeBegin ==
    /\ pc = "grade"
    /\ IF tars = 0
       THEN /\ FinishGrade([NoGrade EXCEPT !.grade_kind = "graded"])
            /\ UNCHANGED stages
       ELSE /\ pc' = "reproduce"
            /\ live' = FALSE
            /\ stages' = Append(stages, "repro_start")
            /\ UNCHANGED outcome
    /\ UNCHANGED <<cfg, now, startV, recV, phaseV, cancels, agentV, uploads, lightV>>
    /\ UNCHANGED outsideRun

\* the reproduction runs in its own sandbox
Reproduce ==
    /\ pc = "reproduce"
    /\ pc' = "judge"
    /\ stages' = stages \o <<"repro_end", "judge_start">>
    /\ UNCHANGED <<cfg, now, startV, live, outcome, recV, phaseV, cancels, agentV,
                   uploads, lightV>>
    /\ UNCHANGED outsideRun

\* the judge grades the submission, or leaves no judge_output
Judge ==
    /\ pc = "judge"
    /\ \E judged \in BOOLEAN :
         FinishGrade([grade_kind |-> "graded", score |-> 1, grader_log |-> "",
                      submission_exists |-> TRUE, judged |-> judged,
                      agent_output |-> NoOutput])
    /\ stages' = Append(stages, "judge_end")
    /\ UNCHANGED <<cfg, now, startV, recV, phaseV, cancels, agentV, uploads, lightV>>
    /\ UNCHANGED outsideRun

\* _try_system_operation: an Exception out of task.grade leaves run() as
\* RolloutSystemError
GradeRaise ==
    /\ pc \in {"grade", "reproduce", "judge"}
    /\ pc' = "done"
    /\ outcome' = Raised("RolloutSystemError")
    /\ CloseStack
    /\ UNCHANGED <<cfg, now, startV, stages, recV, phaseV, cancels, agentV, uploads,
                   lightV>>
    /\ UNCHANGED outsideRun

(***************************************************************************)
(* The run.                                                                *)
(***************************************************************************)
\* the state of the run before BasePBSolver.run starts
RunStart ==
    /\ now = 0
    /\ pc = "lease"
    /\ attempt_number = 1
    /\ leaseLog = <<>>
    /\ live = FALSE
    /\ stages = <<>>
    /\ setup_outcome = "none"
    /\ existing_run = NotChecked
    /\ outcome = Running
    /\ start_time = 0
    /\ mwake = 0
    /\ exc = "None"
    /\ loopExit = "none"
    /\ agent_output = NoOutput
    /\ cancels = 0
    /\ apc = "idle"
    /\ num_steps = 0
    /\ total_retry_time = 0
    /\ upload_task = 0
    /\ last_time_uploaded = 0
    /\ uploads = <<>>
    /\ lpc = "idle"
    /\ lwake = 0

\* ReleasableComputer.__init__(delegate, exit_stack), no caller yet
RCIdle ==
    /\ rc_released = FALSE
    /\ rc_delegate = TRUE
    /\ rc_stack = TRUE
    /\ d_commands = <<>>
    /\ d_stopped = 0
    /\ ctx_exits = 0
    /\ rpc = <<>>
    /\ opLog = <<>>

\* get_instances is not running
EnumIdle ==
    /\ paper_ids = <<>>
    /\ n_tries = 0
    /\ resume_no_extend = FALSE
    /\ group_run_ids = {}
    /\ existing_run_ids = {}
    /\ tasks = <<>>
    /\ attempt_idx = 0
    /\ paper_idx = 1
    /\ minted = 0
    /\ epc = "returned"

\* a fresh run, or a resumed one whose RunRecord already holds files
\* start_computer_with_retry is not in use
\* one file under ToolState and the file tools (SpecFile): not in use
FileIdle ==
    /\ fclock = 0
    /\ f_exists = FALSE
    /\ f_content = 0
    /\ f_mtime = 0
    /\ f_writes = 0
    /\ files_read = FALSE
    /\ read_time = 0
    /\ stale = FALSE
    /\ f_ops = 0
    /\ f_result = "none"

\* one BashWindow and the Bash tool calls on it (SpecBash): not in use
BashIdle ==
    /\ w_status = "idle"
    /\ w_monitor = "none"
    /\ w_shell = <<>>
    /\ w_writes = <<>>
    /\ b_pc = "idle"
    /\ b_calls = 0
    /\ b_result = "none"

\* one BashSessionManager and the tasks that call it (SpecMgr): not in use
MgrIdle ==
    /\ windows = [n \in {"main", "w2"} |-> 0]
    /\ procs = {}
    /\ started = 0
    /\ lock_depth = 0
    /\ mpc = [c \in {} |-> 0]
    /\ m_calls = 0

\* the interactive agent: runner.main, BaseAgent and MemoryManager (SpecAgent): not in use
AgentIdle ==
    /\ store = <<>>
    /\ r_pc = "exit"
    /\ sent = <<>>
    /\ keep_recent_messages = 10
    /\ next_mid = 0
    /\ next_use = 0
    /\ n_compactions = 0
    /\ llm_calls = 0
    /\ n_inputs = 0
    /\ compress_log = "none"

\* one BashOutputStreamer and the module's bash_output_queue (SpecStream): not in use
StreamIdle ==
    /\ out_queue = <<>>
    /\ s_pc = "off"
    /\ s_item = [sid |-> 0, is_final |-> FALSE]
    /\ sent_ok = {}
    /\ shutdown_event = FALSE
    /\ d_pc = "off"
    /\ d_waits = 0
    /\ at_shutdown = {}
    /\ send_fails = 0
    /\ sessions = <<>>

RetryIdle ==
    /\ retry_types = {}
    /\ lease_pc = "done"
    /\ lease_attempt = 1
    /\ lease_log = <<>>
    /\ running = 0
    /\ body_exc = "None"
    /\ lease_exc = "None"

\* no evaluation is being summarised
NoHealth == [n_rollouts_failed |-> None, n_gradings_failed |-> None]

SumIdle ==
    /\ results = <<>>
    /\ run_health = NoHealth

\* no agent loop has built a history
PruneIdle ==
    /\ messages = <<>>
    /\ num_calls = 0
    /\ num_turns = 0
    /\ num_prunes = 0
    /\ last_op = "idle"
    /\ num_msgs = 0
    /\ prune_input = <<>>

Init ==
    /\ StreamIdle
    /\ AgentIdle
    /\ MgrIdle
    /\ BashIdle
    /\ FileIdle
    /\ cfg \in Configs
    /\ statusExists \in BOOLEAN
    /\ tars \in {0, 1}
    /\ RunStart
    /\ RCIdle
    /\ EnumIdle
    /\ PruneIdle
    /\ SumIdle
    /\ RetryIdle

Next ==
    \/ StartComputerAttempt
    \/ Setup
    \/ CheckForExistingRun
    \/ PrepareAgent
    \/ \E i \in 1..Len(uploads) : UploadStep(i)
    \/ WatchWake
    \/ TimeoutExpire
    \/ FinAgentWake
    \/ FinLightWake
    \/ FinalUploadReturn
    \/ AgentStart
    \/ AgentResponse
    \/ AgentDrained
    \/ LightWake
    \/ Tick
    \/ UpstreamCancel
    \/ GradeBegin
    \/ Reproduce
    \/ Judge
    \/ GradeRaise

Spec == Init /\ [][Next]_vars

(***************************************************************************)
(* ReleasableComputer: the wrapper run() hands to the solver and to the    *)
(* grader, with tasks that request operations and call release().          *)
(***************************************************************************)
Callers == 1..NumCallers

\* the operations of the wrapper: the five methods and __getattr__
Operations == {"disable_internet", "upload", "download", "send_shell_command",
               "fetch_container_names", "getattr"}

\* variant: an _ensure_active that returns the delegate unchecked
M_EnsureActive == TRUE

\* _ensure_active returns the delegate; otherwise it raises RuntimeError
EnsureActive == ~rc_released /\ rc_delegate

\* One operation requested through the wrapper: it is forwarded to the
\* delegate if _ensure_active returns it, and fails with RuntimeError if not.
RC_Op ==
    /\ Len(opLog) < MaxOps
    /\ \E op \in Operations :
         IF EnsureActive
         THEN /\ d_commands' = Append(d_commands, [op |-> op, released |-> rc_released])
              /\ opLog' = Append(opLog, [op |-> op, released |-> rc_released,
                                         result |-> "ok"])
         ELSE /\ opLog' = Append(opLog, [op |-> op, released |-> rc_released,
                                         result |-> "RuntimeError"])
              /\ UNCHANGED d_commands
    /\ UNCHANGED <<rc_released, rc_delegate, rc_stack, d_stopped, ctx_exits, rpc>>
    /\ UNCHANGED outsideRC

\* a caller that is not inside release()
NoCall(calls) == [at |-> "idle", calls |-> calls, delegate |-> FALSE,
                  cleanup |-> FALSE, raising |-> FALSE]

\* variant: a release() without "if self._released: return"
M_ReleaseEnter(c) ==
    /\ rpc[c].at = "idle"
    /\ rpc[c].calls < MaxReleaseCalls
    /\ rc_released' = TRUE
    /\ rc_delegate' = FALSE
    /\ rc_stack' = FALSE
    /\ rpc' = [rpc EXCEPT ![c] = [at |-> "aclose", calls |-> @.calls + 1,
                                  delegate |-> rc_delegate,
                                  cleanup |-> rc_stack,
                                  raising |-> FALSE]]
    /\ UNCHANGED <<d_commands, d_stopped, ctx_exits, opLog>>
    /\ UNCHANGED outsideRC

\* release(), or stop(), up to "await cleanup_stack.aclose()": a released
\* wrapper returns at once; otherwise the wrapper is marked, the delegate is
\* taken and the callbacks of the exit stack are moved to cleanup_stack
ReleaseEnter(c) ==
    /\ rpc[c].at = "idle"
    /\ rpc[c].calls < MaxReleaseCalls
    /\ IF rc_released
       THEN /\ rpc' = [rpc EXCEPT ![c] = NoCall(@.calls + 1)]
            /\ UNCHANGED <<rc_released, rc_delegate, rc_stack>>
       ELSE /\ rc_released' = TRUE
            /\ rc_delegate' = FALSE
            /\ rc_stack' = FALSE
            /\ rpc' = [rpc EXCEPT ![c] = [at |-> "aclose", calls |-> @.calls + 1,
                                          delegate |-> rc_delegate,
                                          cleanup |-> rc_stack,
                                          raising |-> FALSE]]
    /\ UNCHANGED <<d_commands, d_stopped, ctx_exits, opLog>>
    /\ UNCHANGED outsideRC

\* cleanup_stack.aclose() exits the leased context and returns or raises; the
\* finally clause then stops the delegate it took, if any
ReleaseAclose(c) ==
    /\ rpc[c].at = "aclose"
    /\ ctx_exits' = IF rpc[c].cleanup THEN ctx_exits + 1 ELSE ctx_exits
    /\ \E raised \in BOOLEAN :
         rpc' = [rpc EXCEPT ![c] =
                   IF rpc[c].delegate
                   THEN [@ EXCEPT !.at = "stop", !.cleanup = FALSE,
                                  !.raising = raised]
                   ELSE NoCall(@.calls)]
    /\ UNCHANGED <<rc_released, rc_delegate, rc_stack, d_commands, d_stopped, opLog>>
    /\ UNCHANGED outsideRC

\* "with suppress(Exception): await delegate.stop()", then release() returns
\* or re-raises the exception of aclose()
ReleaseStop(c) ==
    /\ rpc[c].at = "stop"
    /\ d_stopped' = d_stopped + 1
    /\ rpc' = [rpc EXCEPT ![c] = NoCall(@.calls)]
    /\ UNCHANGED <<rc_released, rc_delegate, rc_stack, d_commands, ctx_exits, opLog>>
    /\ UNCHANGED outsideRC

\* a wrapper shared by NumCallers tasks; the run itself is not started
InitRC ==
    /\ StreamIdle
    /\ AgentIdle
    /\ MgrIdle
    /\ BashIdle
    /\ FileIdle
    /\ cfg \in {c \in Configs : c.exception_types = {}}
    /\ statusExists = FALSE
    /\ tars = 0
    /\ RunStart
    /\ rc_released = FALSE
    /\ rc_delegate = TRUE
    /\ rc_stack = TRUE
    /\ d_commands = <<>>
    /\ d_stopped = 0
    /\ ctx_exits = 0
    /\ rpc = [c \in Callers |-> NoCall(0)]
    /\ opLog = <<>>
    /\ EnumIdle
    /\ PruneIdle
    /\ SumIdle
    /\ RetryIdle

NextRC ==
    \/ RC_Op
    \/ \E c \in Callers : ReleaseEnter(c)
    \/ \E c \in Callers : ReleaseAclose(c)
    \/ \E c \in Callers : ReleaseStop(c)

SpecRC == InitRC /\ [][NextRC]_vars

(***************************************************************************)
(* Properties.                                                             *)
(***************************************************************************)
Range(seq) == {seq[i] : i \in DOMAIN seq}

IsPrefix(s, t) == Len(s) <= Len(t) /\ \A i \in 1..Len(s) : s[i] = t[i]

Last(seq) == seq[Len(seq)]

\* the final uploads and the periodic uploads started so far
FinalUploads == {i \in DOMAIN uploads : uploads[i].kind = "final"}
PeriodicUploads == {i \in DOMAIN uploads : uploads[i].kind = "periodic"}

\* the main task has left the finally block of the agent phase
AfterFinally == pc \in {"final_upload", "grade", "reproduce", "judge", "done"}

\* _run_save_and_check has returned or was left by an exception
AgentPhaseOver == pc \in {"grade", "reproduce", "judge", "done"}

\* C1: once the watch loop has been left by a normal finish, by the expiry of
\* the time limit or by a cancellation, and the finally block is done, exactly
\* one final upload_heavy_logs has been started; never more than one is
\* started, and none before agent_task has ended.  The agent phase returns
\* only when that upload has completed or failed; the upload is abandoned
\* only by a cancellation of the run that arrives while it is under way.
C1_OneFinalSnapshot ==
    /\ Cardinality(FinalUploads) <= 1
    /\ FinalUploads # {} => AgentDone /\ AfterFinally
    /\ (loopExit \in {"finished", "timeout", "cancelled"} /\ AfterFinally)
          => Cardinality(FinalUploads) = 1
    /\ \A i \in FinalUploads :
          /\ pc \in {"grade", "reproduce", "judge"}
                => uploads[i].st \in {"done", "failed"}
          /\ uploads[i].st = "cancelled"
                => pc = "done" /\ outcome = Raised("CancelledError")

\* a timed-out or cancelled agent phase whose final upload has completed
C1_Witness ==
    /\ loopExit \in {"timeout", "cancelled"}
    /\ pc = "grade"
    /\ \E i \in FinalUploads : uploads[i].st = "done"

\* C2: when the agent phase is over after agent_task was cancelled or ended
\* with a timeout, no periodic heavy upload is still in flight.
C2_InFlightUploadsAwaited ==
    (apc \in {"cancelled", "timeout_error"} /\ AgentPhaseOver)
       => \A i \in PeriodicUploads : UploadFinished(uploads[i])

\* the order of the stage boundaries of one run
StageOrder == <<"setup_start", "setup_end", "agent_start", "agent_end",
                "grade_start", "repro_start", "repro_end", "judge_start",
                "judge_end">>

\* C3: the stage boundaries of a run are passed in the order setup, agent,
\* grading (reproduction, then judging), each stage starting after its
\* predecessor has ended; agent_task and the heartbeat run only after setup
\* has ended, and neither is running while the run is graded.
C3_StagesInOrder ==
    /\ IsPrefix(stages, StageOrder)
    /\ (apc # "idle" \/ lpc # "idle") => "setup_end" \in Range(stages)
    /\ pc \in {"grade", "reproduce", "judge"}
          => /\ "agent_end" \in Range(stages)
             /\ apc = "idle" \/ AgentDone
             /\ lpc = "idle" \/ LightDone

\* a run that went through every stage after its agent loop was timed out
C3_Witness ==
    /\ stages = StageOrder
    /\ pc = "done"
    /\ loopExit = "timeout"

\* C4: the result of a run whose agent phase raised an exception carries an
\* AgentOutput whose error_msg records the exception.
C4_ExceptionCaptured ==
    (exc # "None" /\ pc = "done" /\ outcome.kind = "final_result")
       => /\ outcome.grade.agent_output.present
          /\ outcome.grade.agent_output.error_msg # "None"

\* C5: after an exception raised in the agent phase the run goes on to
\* grading; the exception never leaves run(), and the run ends with a final
\* result unless grading itself fails or the run is cancelled from outside.
C5_AgentExceptionNeverAborts ==
    (exc # "None" /\ pc \notin {"watch", "fin_agent", "fin_light"})
       => /\ "grade_start" \in Range(stages)
          /\ outcome.exc # "Error"
          /\ pc = "done" => \/ outcome.kind = "final_result"
                            \/ outcome.exc \in {"RolloutSystemError", "CancelledError"}

\* a graded run whose agent loop raised an exception
C5_Witness ==
    /\ exc # "None"
    /\ loopExit = "agent_error"
    /\ pc = "done"
    /\ outcome.kind = "final_result"

\* C6: after a failed setup the run is over with one final result, the zero
\* early-exit grade whose grader_log reports the setup failure, and neither
\* the agent phase nor grading has started.
C6_SetupFailureEarlyExit ==
    setup_outcome = "failed"
       => /\ pc = "done"
          /\ outcome.kind = "final_result"
          /\ outcome.grade.grade_kind = "early_exit"
          /\ outcome.grade.score = 0
          /\ outcome.grade.grader_log = "Solver-specific computer setup failed"
          /\ Range(stages) \cap {"agent_start", "grade_start", "repro_start",
                                 "judge_start"} = {}
          /\ apc = "idle" /\ lpc = "idle" /\ uploads = <<>>

\* a run that ended after its setup failed
C6_Witness ==
    /\ setup_outcome = "failed"
    /\ pc = "done"
    /\ stages = <<"setup_start">>

\* the last attempt to start the sandbox failed and no retry is left
LeaseExhausted ==
    /\ leaseLog # <<>>
    /\ Last(leaseLog) \in ExceptionKinds
    /\ \/ Len(leaseLog) >= max_attempts
       \/ ~RetryIfExceptionType(Last(leaseLog), cfg.exception_types)

\* C7: when leasing the sandbox has failed with no retry left, the run ends
\* with an early-exit final result and no exception leaves run().
C7_LeaseFailureIsEarlyExit ==
    LeaseExhausted
       => /\ pc = "done"
          /\ outcome.kind = "final_result"
          /\ outcome.grade.grade_kind = "early_exit"

\* C8: no more than max_attempts attempts are made to start the sandbox, and
\* when attempt number max_attempts fails the failure leaves
\* start_computer_with_retry and the run.
C8_AtMostMaxAttempts ==
    /\ Len(leaseLog) <= max_attempts
    /\ attempt_number <= max_attempts
    /\ (Len(leaseLog) = max_attempts /\ Last(leaseLog) \in ExceptionKinds)
          => pc = "done" /\ outcome = Raised(Last(leaseLog))

\* max_attempts attempts were made and the last one failed
C8_Witness ==
    /\ Len(leaseLog) = max_attempts
    /\ \A i \in DOMAIN leaseLog : leaseLog[i] \in ExceptionKinds
    /\ pc = "done"

\* C9: every failed start that was followed by another attempt was of a
\* declared kind; a failure of an undeclared kind, or any failure when no
\* kind is declared, is the last attempt and leaves the run as it is.
C9_RetryOnlyDeclaredKinds ==
    \A i \in DOMAIN leaseLog :
        /\ i < Len(leaseLog) => leaseLog[i] \in cfg.exception_types
        /\ leaseLog[i] \in ExceptionKinds \ cfg.exception_types
              => /\ i = Len(leaseLog)
                 /\ pc = "done"
                 /\ outcome = Raised(leaseLog[i])

\* a declared failure was retried and the retry failed with an undeclared one
C9_Witness ==
    /\ cfg.exception_types = {"AlcatrazException"}
    /\ leaseLog = <<"AlcatrazException", "OtherException">>
    /\ pc = "done"

\* C10: every operation requested through a released wrapper failed with
\* RuntimeError, and the delegate received only the operations that were
\* requested before the release.
C10_ReleasedOpsFail ==
    /\ \A i \in DOMAIN opLog :
          opLog[i].released <=> opLog[i].result = "RuntimeError"
    /\ \A j \in DOMAIN d_commands : ~d_commands[j].released
    /\ Len(d_commands) = Cardinality({i \in DOMAIN opLog : ~opLog[i].released})

\* an operation went through before the release and one was refused after it
C10_Witness ==
    /\ Len(opLog) >= 2
    /\ opLog[1].result = "ok"
    /\ Last(opLog).released
    /\ Last(opLog).result = "RuntimeError"

\* no caller is inside release()
NoReleaseRunning == \A c \in Callers : rpc[c].at = "idle"

\* caller c calls release() or stop() on a wrapper that is already released
LaterRelease(c) == rc_released /\ rpc'[c].calls = rpc[c].calls + 1

\* C11: over any sequence of release() and stop() calls the leased context
\* is exited at most once and the delegate stopped at most once, both exactly
\* once when the first call is over; a call on a released wrapper returns at
\* once, raises nothing and changes nothing.
C11_ReleaseIdempotent ==
    /\ [](/\ ctx_exits <= 1
          /\ d_stopped <= 1
          /\ (rc_released /\ NoReleaseRunning) => ctx_exits = 1 /\ d_stopped = 1)
    /\ [][\A c \in Callers :
            LaterRelease(c)
               => /\ rpc'[c].at = "idle"
                  /\ ~rpc'[c].raising
                  /\ UNCHANGED <<rc_released, rc_delegate, rc_stack, d_commands,
                                 d_stopped, ctx_exits>>]_vars

\* both callers have called release() twice and every call has returned
C11_Witness ==
    /\ \A c \in Callers : rpc[c].calls = MaxReleaseCalls /\ rpc[c].at = "idle"
    /\ ctx_exits = 1
    /\ d_stopped = 1

\* check_for_existing_run found status.json and at least one archive
FoundExistingRun ==
    /\ existing_run.checked
    /\ existing_run.status_exists
    /\ existing_run.num_tars >= 1

\* C12: when the agent phase is entered with status.json and at least one
\* archive in the RunRecord, neither agent_task nor the heartbeat is started,
\* no step is made, no upload is started, the archives stay as they were, and
\* the run goes on to grading with the AgentOutput of the existing run.
C12_ExistingRunSkipsAgent ==
    FoundExistingRun
       => /\ apc = "idle" /\ lpc = "idle" /\ num_steps = 0
          /\ uploads = <<>>
          /\ tars = existing_run.num_tars
          /\ statusExists
          /\ loopExit = "none" /\ exc = "None"
          /\ pc \in {"grade", "reproduce", "judge", "done"}
          /\ "grade_start" \in Range(stages)
          /\ agent_output = AgentOutput(TRUE)

\* a resumed run that was graded without running the agent
C12_Witness ==
    /\ FoundExistingRun
    /\ pc = "done"
    /\ outcome.kind = "final_result"
    /\ outcome.grade.judged

(***************************************************************************)
(* PaperBench.get_instances: the enumeration of the tasks of a run group.  *)
(* An id is the sequence of the parts that "_" separates in its string: a  *)
(* run_id is the paper id followed by one more part, the uuid.             *)
(***************************************************************************)
PaperA == <<"a">>
PaperAB == <<"a", "b">>
PaperC == <<"c">>

\* the splits explored: distinct paper ids, in file order
Splits == {<<PaperA, PaperC>>, <<PaperA, PaperAB>>, <<PaperAB, PaperA>>,
           <<PaperC, PaperAB, PaperA>>}

\* the run_ids an earlier incarnation of the run group may have left
EarlierRunIds == {Append(q, u) : q \in {PaperA, PaperAB, PaperC}, u \in {"u1", "u2"}}

\* create_run_id(paper_id): "<paper>_<uuid>", the k-th uuid of this call
CreateRunId(paper_id, k) == Append(paper_id, ToString(k))

\* run_id.startswith(f"{paper_id}_")
StartsWith(run_id, paper_id) ==
    /\ Len(run_id) > Len(paper_id)
    /\ \A i \in 1..Len(paper_id) : run_id[i] = paper_id[i]

\* variant: a loop that leaves the reused run_id in the set
M_RemoveReused(ids, run_id) == ids

\* existing_run_ids.remove(run_id)
RemoveReused(ids, run_id) == ids \ {run_id}

\* variant: a loop that never creates a run_id
M_PurelyResuming == TRUE

\* "elif self.resume_no_extend: continue"
PurelyResuming == resume_no_extend

\* PBTask(question_id=run_id, attempt_id=attempt_idx, paper_id=paper_id, ...)
PBTask(paper_id, attempt_id, run_id) ==
    [question_id |-> run_id, attempt_id |-> attempt_id, paper_id |-> paper_id,
     run_id |-> run_id]

\* the inner loop moves to the next paper, the outer one to the next attempt
NextIteration ==
    IF paper_idx = Len(paper_ids)
    THEN attempt_idx' = attempt_idx + 1 /\ paper_idx' = 1
    ELSE paper_idx' = paper_idx + 1 /\ UNCHANGED attempt_idx

\* One iteration of the inner loop: next(...) takes some run_id of the set
\* that starts with the paper id, in the set's iteration order; it is reused
\* and removed, or the paper is skipped, or a run_id is created.
GetInstancesStep ==
    /\ epc = "loop"
    /\ attempt_idx < n_tries
    /\ LET paper_id == paper_ids[paper_idx]
           found == {r \in existing_run_ids : StartsWith(r, paper_id)}
       IN IF found # {}
          THEN \E run_id \in found :
                 /\ existing_run_ids' = RemoveReused(existing_run_ids, run_id)
                 /\ tasks' = Append(tasks, PBTask(paper_id, attempt_idx, run_id))
                 /\ UNCHANGED minted
          ELSE IF PurelyResuming
               THEN UNCHANGED <<existing_run_ids, tasks, minted>>
               ELSE /\ minted' = minted + 1
                    /\ tasks' = Append(tasks, PBTask(paper_id, attempt_idx,
                                                     CreateRunId(paper_id, minted + 1)))
                    /\ UNCHANGED existing_run_ids
    /\ NextIteration
    /\ UNCHANGED <<paper_ids, n_tries, resume_no_extend, group_run_ids, epc>>
    /\ UNCHANGED outsideEnum

\* "return tasks"
GetInstancesReturn ==
    /\ epc = "loop"
    /\ attempt_idx >= n_tries
    /\ epc' = "returned"
    /\ UNCHANGED <<paper_ids, n_tries, resume_no_extend, group_run_ids,
                   existing_run_ids, tasks, attempt_idx, paper_idx, minted>>
    /\ UNCHANGED outsideEnum

\* get_instances starts: the split is read and, when a run group is resumed,
\* the run_ids of its directories are listed
InitEnum ==
    /\ StreamIdle
    /\ AgentIdle
    /\ MgrIdle
    /\ BashIdle
    /\ FileIdle
    /\ cfg \in {c \in Configs : c.exception_types = {}}
    /\ statusExists = FALSE
    /\ tars = 0
    /\ RunStart
    /\ RCIdle
    /\ PruneIdle
    /\ SumIdle
    /\ RetryIdle
    /\ paper_ids \in Splits
    /\ n_tries \in 0..MaxTries
    /\ resume_no_extend \in BOOLEAN
    /\ group_run_ids \in SUBSET EarlierRunIds
    /\ existing_run_ids = group_run_ids
    /\ tasks = <<>>
    /\ attempt_idx = 0
    /\ paper_idx = 1
    /\ minted = 0
    /\ epc = "loop"

NextEnum ==
    \/ GetInstancesStep
    \/ GetInstancesReturn

SpecEnum == InitEnum /\ [][NextEnum]_vars

\* C13: the tasks built so far have pairwise different run_ids: a run_id of
\* the resume group is given to at most one task, and a created run_id to
\* the task it was created for only.
C13_RunIdsDistinct ==
    /\ \A i, j \in DOMAIN tasks : i # j => tasks[i].run_id # tasks[j].run_id
    /\ \A i \in DOMAIN tasks : tasks[i].run_id \notin existing_run_ids

\* an enumeration that reused run_ids in both attempts and created one
C13_Witness ==
    /\ epc = "returned"
    /\ n_tries = 2
    /\ \E i, j, k \in DOMAIN tasks :
          /\ tasks[i].run_id \in group_run_ids /\ tasks[i].attempt_id = 0
          /\ tasks[j].run_id \in group_run_ids /\ tasks[j].attempt_id = 1
          /\ tasks[j].paper_id = tasks[i].paper_id
          /\ tasks[k].run_id \notin group_run_ids

\* the tasks of one paper and one attempt
TasksOf(paper_id, attempt_id) ==
    {i \in DOMAIN tasks : tasks[i].paper_id = paper_id /\ tasks[i].attempt_id = attempt_id}

\* C14: without resume_no_extend the returned list holds exactly one task
\* for every paper of the split and every attempt below n_tries, and nothing
\* else.
C14_OneTaskPerPaperAndAttempt ==
    (epc = "returned" /\ ~resume_no_extend)
       => /\ \A q \in Range(paper_ids) : \A a \in 0..(n_tries - 1) :
                Cardinality(TasksOf(q, a)) = 1
          /\ Len(tasks) = Len(paper_ids) * n_tries
          /\ \A i \in DOMAIN tasks :
                /\ tasks[i].paper_id \in Range(paper_ids)
                /\ tasks[i].attempt_id \in 0..(n_tries - 1)

\* a returned enumeration of three papers and two attempts, partly resumed
C14_Witness ==
    /\ epc = "returned"
    /\ ~resume_no_extend
    /\ Len(paper_ids) = 3
    /\ n_tries = 2
    /\ group_run_ids # {}
    /\ Len(tasks) = 6

\* the uploads whose upload_sources has written submission.tar.gz
Written == {i \in DOMAIN uploads : uploads[i].st \in {"tar", "done"}}

\* C15: of two heavy snapshots of one run that were written, the later one
\* went to another submissions/<timestamp>/ directory than the earlier one.
C15_SnapshotsAppendOnly ==
    \A i, j \in Written : i < j => uploads[j].timestamp # uploads[i].timestamp

\* C16: a periodic snapshot that fails is never raised in the agent task:
\* the agent task that awaited a periodic upload in its TimeoutError handler
\* leaves the handler with the TimeoutError it caught (or is cancelled
\* there), not with the error of the upload.
C16_SnapshotFailureStaysOut ==
    [][(apc = "drain" /\ apc' \notin {"drain", "cancelled"})
          => apc' = "timeout_error"]_vars

\* the latest periodic upload the agent loop has started
LastPeriodic == CHOOSE p \in PeriodicUploads : \A q \in PeriodicUploads : q <= p

\* C17: with the seconds interval I set, once a periodic snapshot was started
\* at time t the agent loop's reference time is floor(t / I) * I, and the
\* time trigger of the next loop pass is on exactly when the clock is past
\* the next multiple of I after t, whatever the state of that upload.
C17_TriggersAlignedToInterval ==
    (cfg.upload_interval_seconds # None /\ PeriodicUploads # {} /\ apc = "completing")
       => LET I == cfg.upload_interval_seconds
              t == uploads[LastPeriodic].timestamp
          IN /\ last_time_uploaded = (t \div I) * I
             /\ ShouldUploadPeriodicHeavyLogs(num_steps + 1, last_time_uploaded)
                   <=> now > ((t \div I) + 1) * I

\* the next snapshot is due less than one interval after the previous one
\* started, because that one started late in its interval and is still running
C17_Witness ==
    /\ cfg.upload_interval_seconds # None
    /\ PeriodicUploads # {}
    /\ apc = "completing"
    /\ uploads[LastPeriodic].st = "running"
    /\ uploads[LastPeriodic].timestamp % cfg.upload_interval_seconds # 0
    /\ now < uploads[LastPeriodic].timestamp + cfg.upload_interval_seconds
    /\ ShouldUploadPeriodicHeavyLogs(num_steps + 1, last_time_uploaded)

\* C18: with a step limit, the agent loop never starts more than max_steps
\* steps: the count of the steps it has started stays within the limit.
C18_StepLimitRespected ==
    cfg.max_steps # None => num_steps <= cfg.max_steps

\* C19: the agent loop is under the wall-clock deadline of time_limit seconds:
\* no agent step starts once the deadline has expired.  It is stated for the
\* steps that follow a request with retried time, which the loop's own test
\* of the time limit lets pass.
C19_NoStepAfterDeadline ==
    [][(num_steps' > num_steps /\ total_retry_time' > 0) => ~TimeoutDue]_vars

(***************************************************************************)
(* The message history of _execute_agent and prune_messages.  A message is *)
(* a dict object: its identity, its role, the ids of its tool_calls        *)
(* (assistant), its tool_call_id (tool), whether its text contains "prompt *)
(* is too long", and whether its text is over MAX_TOKENS_PER_MESSAGE.      *)
(***************************************************************************)
Message(oid, role, tool_calls, tool_call_id, too_long, oversize) ==
    [oid |-> oid, role |-> role, tool_calls |-> tool_calls,
     tool_call_id |-> tool_call_id, too_long |-> too_long, oversize |-> oversize]

SystemMessage(oid) == Message(oid, "system", {}, None, FALSE, FALSE)
UserMessage(oid) == Message(oid, "user", {}, None, FALSE, FALSE)
AssistantMessage(oid, tool_calls, oversize) ==
    Message(oid, "assistant", tool_calls, None, FALSE, oversize)

\* handle_tool_call: {"role": "tool", "content": ..., "tool_call_id": call_id}
ToolMessage(oid, call_id, too_long) == Message(oid, "tool", {}, call_id, too_long, FALSE)

IsSystem(m) == m.role = "system"
NotSystem(m) == ~IsSystem(m)

\* getattr(msg, "tool_call_id", None): a message is a dict, and the keys of
\* a dict are not attributes, so the default is returned
ToolCallIdAttribute(msg) == None

\* start_idx = max(1, int(len(non_system_msgs) * 0.3))
StartIdx(n) == IF (n * 3) \div 10 > 1 THEN (n * 3) \div 10 ELSE 1

\* variant: only the slice is preserved
M_Preserved(non_system_msgs) ==
    SubSeq(non_system_msgs, StartIdx(Len(non_system_msgs)) + 1, Len(non_system_msgs))

\* [task_msg] if task_msg else [], then non_system_msgs[start_idx:]
Preserved(non_system_msgs) ==
    LET users == {i \in DOMAIN non_system_msgs : non_system_msgs[i].role = "user"}
        task_msg == IF users = {} THEN <<>>
                    ELSE <<non_system_msgs[CHOOSE i \in users : \A j \in users : i <= j]>>
    IN task_msg \o SubSeq(non_system_msgs, StartIdx(Len(non_system_msgs)) + 1,
                          Len(non_system_msgs))

\* the loop over conversation: valid_messages and active_tool_ids
RECURSIVE ValidMessages(_, _, _)
ValidMessages(conversation, active_tool_ids, valid_messages) ==
    IF conversation = <<>>
    THEN valid_messages
    ELSE LET msg == Head(conversation)
             rest == Tail(conversation)
         IN IF msg.too_long
            THEN ValidMessages(rest, active_tool_ids, valid_messages)
            ELSE IF msg.role = "assistant"
            THEN ValidMessages(rest, msg.tool_calls, Append(valid_messages, msg))
            ELSE IF msg.role = "tool" /\ ToolCallIdAttribute(msg) \in active_tool_ids
            THEN ValidMessages(rest, active_tool_ids, Append(valid_messages, msg))
            ELSE IF msg.role = "user"
            THEN ValidMessages(rest, {}, Append(valid_messages, msg))
            ELSE ValidMessages(rest, active_tool_ids, valid_messages)

\* valid_messages before the truncation of individual messages
Valid(msgs) == ValidMessages(Preserved(SelectSeq(msgs, NotSystem)), {}, <<>>)

\* _handle_message_len: msg["content"] = truncate_string(...), on the dict it
\* was given, which it returns
HandleMessageLen(msg) == [msg EXCEPT !.oversize = FALSE]

\* prune_messages: system_msgs + valid_messages
PruneMessages(msgs, prune_individual) ==
    SelectSeq(msgs, IsSystem)
       \o IF prune_individual
          THEN [i \in DOMAIN Valid(msgs) |-> HandleMessageLen(Valid(msgs)[i])]
          ELSE Valid(msgs)

\* The caller's list after prune_messages(msgs, prune_individual): the list
\* is not changed, but the dicts of valid_messages are the dicts of the list
InputAfterPrune(msgs, prune_individual) ==
    LET handled == {Valid(msgs)[i].oid : i \in DOMAIN Valid(msgs)}
    IN [i \in DOMAIN msgs |->
          IF prune_individual /\ msgs[i].oid \in handled
          THEN HandleMessageLen(msgs[i])
          ELSE msgs[i]]

\* the tool messages of one pass, in the order of the tool calls
ToolResults(first_oid, first, k, too_long) ==
    [i \in 1..k |-> ToolMessage(first_oid + i, first + i, too_long)]

\* One pass of the loop whose request succeeds without submit: the periodic
\* reminder when it is due, the assistant message, then one tool message per
\* tool call or the continue message.
AgentTurn ==
    /\ last_op # "idle"
    /\ num_turns < MaxTurns
    /\ \E reminder \in BOOLEAN, k \in 0..MaxToolCalls, too_long \in BOOLEAN,
          oversize \in BOOLEAN :
         /\ k = 0 => ~too_long
         /\ k # 1 => ~oversize
         /\ LET r == IF reminder THEN 1 ELSE 0
                before == IF reminder
                          THEN Append(messages, UserMessage(num_msgs + 1))
                          ELSE messages
                response == AssistantMessage(num_msgs + r + 1,
                                             (num_calls + 1)..(num_calls + k), oversize)
            IN /\ messages' =
                    IF k = 0
                    THEN before \o <<response, UserMessage(num_msgs + r + 2)>>
                    ELSE before \o <<response>>
                            \o ToolResults(num_msgs + r + 1, num_calls, k, too_long)
               /\ num_msgs' = num_msgs + r + 1 + (IF k = 0 THEN 1 ELSE k)
         /\ num_calls' = num_calls + k
    /\ num_turns' = num_turns + 1
    /\ last_op' = "turn"
    /\ UNCHANGED <<num_prunes, prune_input>>
    /\ UNCHANGED outsidePrune

\* The request fails with a context-length error: "messages =
\* prune_messages(messages, prune_individual=...)" and the loop goes on.
PruneStep ==
    /\ last_op # "idle"
    /\ num_prunes < MaxPrunes
    /\ \E prune_individual \in BOOLEAN :
         /\ messages' = PruneMessages(messages, prune_individual)
         /\ prune_input' = InputAfterPrune(messages, prune_individual)
    /\ num_prunes' = num_prunes + 1
    /\ last_op' = "prune"
    /\ UNCHANGED <<num_calls, num_turns, num_msgs>>
    /\ UNCHANGED outsidePrune

\* _execute_agent starts with the prompt of _run_agent: system, instructions
InitPrune ==
    /\ StreamIdle
    /\ AgentIdle
    /\ MgrIdle
    /\ BashIdle
    /\ FileIdle
    /\ cfg \in {c \in Configs : c.exception_types = {}}
    /\ statusExists = FALSE
    /\ tars = 0
    /\ RunStart
    /\ RCIdle
    /\ EnumIdle
    /\ SumIdle
    /\ RetryIdle
    /\ messages = <<SystemMessage(1), UserMessage(2)>>
    /\ num_calls = 0
    /\ num_turns = 0
    /\ num_prunes = 0
    /\ last_op = "init"
    /\ num_msgs = 2
    /\ prune_input = <<>>

NextPrune ==
    \/ AgentTurn
    \/ PruneStep

SpecPrune == InitPrune /\ [][NextPrune]_vars

\* every tool message follows, with tool messages only in between, the
\* assistant message that holds its tool call, and every tool call of an
\* assistant message has its tool message later in the history
PairsIntact(msgs) ==
    /\ \A i \in DOMAIN msgs :
          msgs[i].role = "tool" =>
             \E j \in 1..(i - 1) :
                /\ msgs[j].role = "assistant"
                /\ msgs[i].tool_call_id \in msgs[j].tool_calls
                /\ \A k \in (j + 1)..(i - 1) : msgs[k].role = "tool"
    /\ \A j \in DOMAIN msgs :
          \A c \in msgs[j].tool_calls :
             \E i \in (j + 1)..Len(msgs) :
                msgs[i].role = "tool" /\ msgs[i].tool_call_id = c

\* C20: in the history that prune_messages returns, every kept tool message
\* follows the kept assistant message of its tool call, and every tool call
\* of a kept assistant message still has its tool message.
C20_ToolPairsIntact ==
    last_op = "prune" => PairsIntact(messages)

\* the objects of a history, and where an object stood in the pruned list
Oids(msgs) == {msgs[i].oid : i \in DOMAIN msgs}
InputPos(oid) == CHOOSE i \in DOMAIN prune_input : prune_input[i].oid = oid

\* the initial task instruction: the first user message of the pruned list
TaskPos ==
    CHOOSE i \in DOMAIN prune_input :
       /\ prune_input[i].role = "user"
       /\ \A j \in 1..(i - 1) : prune_input[j].role # "user"

\* the messages the last prune_messages call dropped for their age: dropped,
\* and neither a tool message nor a "prompt is too long" message, which the
\* filter drops wherever they stand
DroppedForAge ==
    {i \in DOMAIN prune_input :
        /\ prune_input[i].oid \notin Oids(messages)
        /\ prune_input[i].role \in {"assistant", "user"}
        /\ ~prune_input[i].too_long}

\* C21: prune_messages keeps every system message and the initial task
\* instruction; every message it drops for age stood before every non-system
\* message it keeps other than that instruction; and the kept messages are
\* messages of the input, once each, in the order of the input.
C21_DropOldestKeepInstruction ==
    last_op = "prune" =>
       /\ \A i \in DOMAIN prune_input :
             IsSystem(prune_input[i]) => prune_input[i].oid \in Oids(messages)
       /\ prune_input[TaskPos].oid \in Oids(messages)
       /\ \A d \in DroppedForAge : \A k \in DOMAIN messages :
             (NotSystem(messages[k]) /\ messages[k].oid # prune_input[TaskPos].oid)
                => d < InputPos(messages[k].oid)
       /\ Oids(messages) \subseteq Oids(prune_input)
       /\ \A i, j \in DOMAIN messages :
             i < j => InputPos(messages[i].oid) < InputPos(messages[j].oid)

\* a pruning that dropped an assistant message for its age and kept later ones
C21_Witness ==
    /\ last_op = "prune"
    /\ \E d \in DroppedForAge : prune_input[d].role = "assistant"
    /\ \E k \in DOMAIN messages : messages[k].role = "assistant"

\* C22: prune_messages does not change its input: after the call the list
\* it was given holds the messages it held before, each as it was.
C22_PruneLeavesInputAlone ==
    [][num_prunes' # num_prunes => prune_input' = messages]_vars

\* the system messages of a history
SystemCount(msgs) == Cardinality({i \in DOMAIN msgs : IsSystem(msgs[i])})

\* C29: a pruning of a history that holds more than its system messages and
\* the initial instruction returns a strictly shorter history.
C29_PruneShortens ==
    (last_op = "prune" /\ Len(prune_input) > SystemCount(prune_input) + 1)
       => Len(messages) < Len(prune_input)

(***************************************************************************)
(* PaperBench.get_full_summary: the health counters of an evaluation.      *)
(***************************************************************************)
\* what one run() hands to the evaluation: a FinalResult with the grade of
\* an early exit, of a run without a submission archive or of a judged
\* submission, or an exception
RunOutcomes ==
    {FinalResult(EarlyExitGrade("Solver-specific computer setup failed"))}
       \cup {FinalResult(Grade([NoGrade EXCEPT !.grade_kind = "graded"], NoOutput))}
       \cup {FinalResult(Grade([grade_kind |-> "graded", score |-> 1, grader_log |-> "",
                                submission_exists |-> TRUE, judged |-> judged,
                                agent_output |-> NoOutput], ao)) :
                judged \in BOOLEAN,
                ao \in {NoOutput, AgentOutput(TRUE), AgentOutput(FALSE)}}
       \cup {Raised(kind) : kind \in ExceptionKinds \cup {"RolloutSystemError",
                                                    "CancelledError"}}

\* final_results: "if isinstance(r, FinalResult) and isinstance(r.grade,
\* PaperBenchGrade)", then r.grade.paperbench_result
FinalResults(rs) ==
    LET IsFinal(r) == r.kind = "final_result"
        finals == SelectSeq(rs, IsFinal)
    IN [i \in DOMAIN finals |-> finals[i].grade]

\* variant: a run counts as failed only when both are missing
M_RolloutFailed(r) == ~r.agent_output.present /\ ~r.submission_exists

\* "not r.agent_output or not r.submission_exists"
RolloutFailed(r) == ~r.agent_output.present \/ ~r.submission_exists

\* "not r.judge_output or not r.judge_output.success"
GradingFailed(r) == ~r.judged

\* len([r for r in results_clean if ...])
CountIf(flags) == Cardinality({i \in DOMAIN flags : flags[i]})

\* a run of the evaluation ends and is collected
RunReported ==
    /\ Len(results) < MaxResults
    /\ run_health = NoHealth
    /\ \E r \in RunOutcomes : results' = Append(results, r)
    /\ UNCHANGED run_health
    /\ UNCHANGED outsideSum

\* get_full_summary(results)
GetFullSummary ==
    /\ run_health = NoHealth
    /\ LET final_results == FinalResults(results) IN
         run_health' =
            [n_rollouts_failed |->
                 CountIf([i \in DOMAIN final_results |-> RolloutFailed(final_results[i])]),
             n_gradings_failed |->
                 CountIf([i \in DOMAIN final_results |-> GradingFailed(final_results[i])])]
    /\ UNCHANGED results
    /\ UNCHANGED outsideSum

InitSum ==
    /\ StreamIdle
    /\ AgentIdle
    /\ MgrIdle
    /\ BashIdle
    /\ FileIdle
    /\ cfg \in {c \in Configs : c.exception_types = {}}
    /\ statusExists = FALSE
    /\ tars = 0
    /\ RunStart
    /\ RCIdle
    /\ EnumIdle
    /\ PruneIdle
    /\ SumIdle
    /\ RetryIdle

NextSum ==
    \/ RunReported
    \/ GetFullSummary

SpecSum == InitSum /\ [][NextSum]_vars

\* the graded runs of the evaluation without an agent output or without a
\* submission snapshot
FailedRollouts ==
    {i \in DOMAIN results :
        /\ results[i].kind = "final_result"
        /\ \/ results[i].grade.agent_output = NoOutput
           \/ ~results[i].grade.submission_exists}

\* C23: n_rollouts_failed of the summary is the number of graded runs that
\* have no agent output or no submission snapshot.
C23_RolloutsFailedCount ==
    run_health # NoHealth
       => run_health.n_rollouts_failed = Cardinality(FailedRollouts)

\* a summary over a run that raised, a run with output and snapshot, a run
\* with a snapshot only
C23_Witness ==
    /\ run_health # NoHealth
    /\ run_health.n_rollouts_failed = 1
    /\ \E i, j, k \in DOMAIN results :
          /\ results[i].kind = "exception"
          /\ results[j].kind = "final_result"
          /\ results[j].grade.agent_output.present
          /\ results[j].grade.submission_exists
          /\ results[k].kind = "final_result"
          /\ ~results[k].grade.agent_output.present
          /\ results[k].grade.submission_exists

\* every run of Spec ends with one of RunOutcomes
RunOutcomesCover == pc = "done" => outcome \in RunOutcomes

(***************************************************************************)
(* start_computer_with_retry with its caller: the generator of the context *)
(* manager, tenacity's attempts, and the body of the caller's "async with".*)
(***************************************************************************)
\* tenacity after an attempt that ended with exception e, which "with
\* attempt:" has captured: another attempt, or e re-raised (reraise=True)
AfterAttemptFailed(e) ==
    IF RetryIfExceptionType(e, retry_types) /\ ~StopAfterAttempt(lease_attempt)
    THEN /\ lease_attempt' = lease_attempt + 1
         /\ lease_pc' = "attempt"
         /\ UNCHANGED lease_exc
    ELSE /\ lease_pc' = "done"
         /\ lease_exc' = e
         /\ UNCHANGED lease_attempt

\* "async with computer_runtime.run(computer_config) as computer: yield
\* computer" of one attempt.  The start fails, or the sandbox is yielded; a
\* generator that yields after an exception was thrown into it makes the
\* context manager raise RuntimeError, and the sandbox it holds is torn down
\* when the generator is closed, at once or not.
LeaseAttempt ==
    /\ lease_pc = "attempt"
    /\ \E res \in {"ok"} \cup ExceptionKinds :
         /\ lease_log' = Append(lease_log, res)
         /\ IF res # "ok"
            THEN /\ AfterAttemptFailed(res)
                 /\ UNCHANGED running
            ELSE IF body_exc = "None"
            THEN /\ lease_pc' = "held"
                 /\ running' = running + 1
                 /\ UNCHANGED <<lease_attempt, lease_exc>>
            ELSE /\ lease_pc' = "done"
                 /\ lease_exc' = "RuntimeError"
                 /\ running' \in {running, running + 1}
                 /\ UNCHANGED lease_attempt
    /\ UNCHANGED <<retry_types, body_exc>>
    /\ UNCHANGED outsideRetry

\* The caller's code raises while it holds the sandbox: the exception is
\* thrown into the generator at the yield, the sandbox's context is left,
\* and the exception reaches "with attempt:".
BodyRaises ==
    /\ lease_pc = "held"
    /\ \E e \in ExceptionKinds :
         /\ body_exc' = e
         /\ AfterAttemptFailed(e)
    /\ running' = running - 1
    /\ UNCHANGED <<retry_types, lease_log>>
    /\ UNCHANGED outsideRetry

\* the caller's code ends: the sandbox's context is left and the loop ends
BodyReturns ==
    /\ lease_pc = "held"
    /\ lease_pc' = "done"
    /\ running' = running - 1
    /\ UNCHANGED <<retry_types, lease_attempt, lease_log, body_exc, lease_exc>>
    /\ UNCHANGED outsideRetry

InitRetry ==
    /\ StreamIdle
    /\ AgentIdle
    /\ MgrIdle
    /\ BashIdle
    /\ FileIdle
    /\ cfg \in {c \in Configs : c.exception_types = {}}
    /\ statusExists = FALSE
    /\ tars = 0
    /\ RunStart
    /\ RCIdle
    /\ EnumIdle
    /\ PruneIdle
    /\ SumIdle
    /\ retry_types \in SUBSET ExceptionKinds
    /\ lease_pc = "attempt"
    /\ lease_attempt = 1
    /\ lease_log = <<>>
    /\ running = 0
    /\ body_exc = "None"
    /\ lease_exc = "None"

NextRetry ==
    \/ LeaseAttempt
    \/ BodyRaises
    \/ BodyReturns

SpecRetry == InitRetry /\ [][NextRetry]_vars

\* C24: once the caller's code has raised while holding the sandbox, no
\* sandbox is started any more, and the caller's "async with" ends with that
\* exception and with the sandbox torn down.
C24_BodyExceptionNotRetried ==
    /\ [](body_exc # "None" =>
            /\ lease_pc = "done"
            /\ lease_exc = body_exc
            /\ running = 0)
    /\ [][body_exc # "None" => lease_log' = lease_log]_vars

\* a call of release() by caller c returns in this step: at once on a wrapper
\* already marked released, or after aclose() and the delegate's stop()
ReleaseReturns(c) ==
    \/ rpc[c].at = "idle" /\ rpc'[c].calls = rpc[c].calls + 1 /\ rpc'[c].at = "idle"
    \/ rpc[c].at # "idle" /\ rpc'[c].at = "idle"

\* the leased context has been exited and the delegate stopped
TornDown == ctx_exits >= 1 /\ d_stopped >= 1

\* C25: whenever a call to release() returns, also one of two concurrent
\* calls, the sandbox has already been torn down.
C25_ReleaseReturnsAfterTeardown ==
    [][\A c \in Callers : ReleaseReturns(c) => TornDown']_vars

\* C26: a failure of the periodic light heartbeat does not end the agent
\* loop and does not keep the final snapshot from being taken.
C26_HeartbeatFailureTolerated ==
    lpc = "failed" =>
        /\ loopExit # "heartbeat_error"
        /\ pc = "done" => FinalUploads # {}

\* C27: when the run is cancelled from upstream during the agent phase, the
\* run does not go on to grading, and it ends with the cancellation raised
\* to the caller of run().
C27_UpstreamCancelPropagates ==
    loopExit = "cancelled" =>
        /\ pc \notin {"grade", "reproduce", "judge"}
        /\ pc = "done" => outcome = Raised("CancelledError")

\* C28: once the final snapshot of the agent phase is stored the run is
\* resumable: status.json and an archive exist in the RunRecord, whatever the
\* duration of the agent phase was.
C28_FinalSnapshotMakesResumable ==
    (\E i \in FinalUploads : uploads[i].st = "done")
        => ExistingRun(statusExists, tars)

\* the main task leaves the watch loop because asyncio.timeout expired
StoppedForTime ==
    /\ pc = "watch"
    /\ loopExit = "none"
    /\ loopExit' = "timeout"
    /\ apc # "timeout_error"

\* C30: with use_real_time_limit the time spent retrying API calls is not
\* counted: the agent is stopped for time only when its elapsed time minus
\* the accumulated retry time has reached time_limit.
C30_RetryTimeNotCounted ==
    [][(cfg.use_real_time_limit /\ StoppedForTime)
          => now - start_time - total_retry_time >= cfg.time_limit]_vars

\* the paper a run_id was created for: create_run_id appends one token
CreatedFor(run_id) == SubSeq(run_id, 1, Len(run_id) - 1)

\* C39: a run_id of the resume group that is reused for a task of paper P
\* was created for paper P, not for another paper whose id begins with P
\* followed by an underscore.
C39_ReusedRunIdOfSamePaper ==
    \A i \in DOMAIN tasks :
        tasks[i].run_id \in group_run_ids
            => CreatedFor(tasks[i].run_id) = tasks[i].paper_id

(***************************************************************************)
(* ToolState's read marks and the Edit, MultiEdit and Write tools, on one  *)
(* file that other programs write as well.                                 *)
(***************************************************************************)
MaxFileTicks == 3             \* the clock of the file tools stops after that
MaxFileOps == 4               \* tool calls and outside writes on the file
FileTickMs == 500             \* the clock advances in steps of FileTickMs
FreshTolerance == 1000        \* "file_mtime - 1.0", in milliseconds

\* mark_file_as_read
MarkFileAsRead ==
    /\ files_read' = TRUE
    /\ read_time' = fclock
    /\ stale' = FALSE

\* is_file_read
IsFileRead == files_read

\* is_file_read_fresh: read, still there, and read not more than the
\* tolerance before the last modification
IsFileReadFresh ==
    /\ files_read
    /\ f_exists
    /\ read_time >= f_mtime - FreshTolerance

\* ToolState.write_file: open(abs_path, 'w').write(content), then
\* mark_file_as_read
WriteFile ==
    /\ f_exists' = TRUE
    /\ f_writes' = f_writes + 1
    /\ f_content' = f_writes + 1
    /\ f_mtime' = fclock
    /\ MarkFileAsRead

FileUntouched == UNCHANGED <<f_exists, f_content, f_mtime, f_writes, files_read,
                             read_time, stale>>

\* the checks Edit, MultiEdit and Write make on an existing file
FreshnessError ==
    IF IsFileReadFresh THEN "none"
    ELSE IF ~IsFileRead THEN "must_read" ELSE "modified_since_read"

\* time passes
FileTick ==
    /\ fclock < MaxFileTicks * FileTickMs
    /\ fclock' = fclock + FileTickMs
    /\ UNCHANGED <<f_exists, f_content, f_mtime, f_writes, files_read, read_time,
                   stale, f_ops, f_result>>
    /\ UNCHANGED outsideFile

\* another program (the user's editor, a shell command) writes the file, at
\* a time the clock tells apart from the last read mark
OutsideWrite ==
    /\ f_ops < MaxFileOps
    /\ files_read => fclock > read_time
    /\ f_ops' = f_ops + 1
    /\ f_exists' = TRUE
    /\ f_writes' = f_writes + 1
    /\ f_content' = f_writes + 1
    /\ f_mtime' = fclock
    /\ stale' = TRUE
    /\ f_result' = "outside_write"
    /\ UNCHANGED <<fclock, files_read, read_time>>
    /\ UNCHANGED outsideFile

\* the Read tool on the file: an existing file is marked as read
ReadCall ==
    /\ f_ops < MaxFileOps
    /\ f_ops' = f_ops + 1
    /\ IF f_exists
       THEN /\ MarkFileAsRead
            /\ f_result' = "read"
       ELSE /\ f_result' = "not_found"
            /\ UNCHANGED <<files_read, read_time, stale>>
    /\ UNCHANGED <<fclock, f_exists, f_content, f_mtime, f_writes>>
    /\ UNCHANGED outsideFile

\* EditTool.execute_async: found says whether old_string is in the content
\* exactly once, or at all under replace_all
EditCall ==
    /\ f_ops < MaxFileOps
    /\ f_ops' = f_ops + 1
    /\ \E found \in BOOLEAN, update_file \in BOOLEAN :
         IF ~f_exists
         THEN f_result' = "not_found" /\ FileUntouched
         ELSE IF FreshnessError # "none"
         THEN f_result' = FreshnessError /\ FileUntouched
         ELSE IF ~found
         THEN f_result' = "old_string_error" /\ FileUntouched
         ELSE /\ f_result' = "updated"
              /\ IF update_file THEN WriteFile ELSE FileUntouched
    /\ UNCHANGED fclock
    /\ UNCHANGED outsideFile

\* MultiEditTool.execute_async: the edits are applied to the content in
\* memory one after the other and the result is written once
MultiEditCall ==
    /\ f_ops < MaxFileOps
    /\ f_ops' = f_ops + 1
    /\ \E all_found \in BOOLEAN, update_file \in BOOLEAN :
         IF ~f_exists
         THEN f_result' = "not_found" /\ FileUntouched
         ELSE IF FreshnessError # "none"
         THEN f_result' = FreshnessError /\ FileUntouched
         ELSE IF ~all_found
         THEN f_result' = "old_string_error" /\ FileUntouched
         ELSE /\ f_result' = "applied_edits"
              /\ IF update_file THEN WriteFile ELSE FileUntouched
    /\ UNCHANGED fclock
    /\ UNCHANGED outsideFile

\* WriteTool.execute_async: a new file is created without a read mark, an
\* existing one is overwritten after the freshness check
WriteCall ==
    /\ f_ops < MaxFileOps
    /\ f_ops' = f_ops + 1
    /\ \E update_file \in BOOLEAN :
         IF f_exists /\ FreshnessError # "none"
         THEN f_result' = FreshnessError /\ FileUntouched
         ELSE /\ f_result' = "updated"
              /\ IF update_file THEN WriteFile ELSE FileUntouched
    /\ UNCHANGED fclock
    /\ UNCHANGED outsideFile

\* a new ToolState; the file may be there already
InitFile ==
    /\ StreamIdle
    /\ AgentIdle
    /\ MgrIdle
    /\ BashIdle
    /\ cfg \in {c \in Configs : c.exception_types = {}}
    /\ statusExists = FALSE
    /\ tars = 0
    /\ RunStart
    /\ RCIdle
    /\ EnumIdle
    /\ PruneIdle
    /\ SumIdle
    /\ RetryIdle
    /\ fclock = 0
    /\ f_exists \in BOOLEAN
    /\ f_content = 0
    /\ f_mtime = 0
    /\ f_writes = 0
    /\ files_read = FALSE
    /\ read_time = 0
    /\ stale = FALSE
    /\ f_ops = 0
    /\ f_result = "none"

NextFile ==
    \/ FileTick
    \/ OutsideWrite
    \/ ReadCall
    \/ EditCall
    \/ MultiEditCall
    \/ WriteCall

SpecFile == InitFile /\ [][NextFile]_vars

\* a call of Edit, MultiEdit or Write
FileToolCall ==
    /\ f_ops' = f_ops + 1
    /\ f_result' \in {"updated", "applied_edits", "not_found", "must_read",
                      "modified_since_read", "old_string_error"}

\* C31: Edit, MultiEdit and Write modify an existing file only when it was
\* marked as read beforehand and nobody has modified it since; otherwise
\* the call fails and leaves the file as it is.
C31_NoEditOfStaleFile ==
    [][(FileToolCall /\ f_exists /\ ~(files_read /\ ~stale))
          => /\ f_content' = f_content
             /\ f_result' \notin {"updated", "applied_edits"}]_vars

(***************************************************************************)
(* BashTool.execute_async on one BashWindow: run_command, the wait for     *)
(* completion and the monitor task.  Tool calls are made one after the     *)
(* other; the monitor task of a call that timed out goes on by itself.     *)
(***************************************************************************)
MaxBashCalls == 3             \* Bash tool calls on the window

\* a command is a shell builtin (no child process) or starts a process
CommandKinds == {"builtin", "external"}

\* _has_child_processes: the shell has children while it runs a command
\* that started a process
HasChildProcesses == w_shell # <<>> /\ Head(w_shell) = "external"

\* monitor_task is set and not done
Monitored == w_monitor # "none"

\* BashSessionManager.status
BashStatus == w_status

\* execute_async up to the wait: a call on a window whose status is
\* "running" is rejected; a command that ends with "&" or fails shlex is
\* refused by run_command; any other command is written to the shell
BashCall ==
    /\ b_pc = "idle"
    /\ b_calls < MaxBashCalls
    /\ b_calls' = b_calls + 1
    /\ \E accepted \in BOOLEAN, kind \in CommandKinds :
         IF BashStatus = "running"
         THEN /\ b_result' = "rejected"
              /\ UNCHANGED <<w_shell, w_writes, b_pc>>
         ELSE IF ~accepted
         THEN /\ b_result' = "error"
              /\ UNCHANGED <<w_shell, w_writes, b_pc>>
         ELSE /\ w_writes' = Append(w_writes, [running |-> w_shell # <<>>,
                                               monitored |-> Monitored])
              /\ w_shell' = Append(w_shell, kind)
              /\ b_pc' = "written"
              /\ b_result' = "none"
    /\ UNCHANGED <<w_status, w_monitor>>
    /\ UNCHANGED outsideBash

\* _wait_for_completion: with a monitor task still there the call sleeps 3
\* seconds and returns; otherwise it creates the monitor task and waits
WaitForCompletion ==
    /\ b_pc = "written"
    /\ IF Monitored
       THEN /\ b_pc' = "sleep3"
            /\ UNCHANGED w_monitor
       ELSE /\ w_monitor' = "start"
            /\ b_pc' = "waiting"
    /\ UNCHANGED <<w_status, w_shell, w_writes, b_calls, b_result>>
    /\ UNCHANGED outsideBash

\* the status a call reports
ReportedStatus == IF w_status = "running" THEN "running" ELSE "completed"

\* sleep(3.0) ends
SleepReturn ==
    /\ b_pc = "sleep3"
    /\ b_pc' = "idle"
    /\ b_result' = ReportedStatus
    /\ UNCHANGED <<w_status, w_monitor, w_shell, w_writes, b_calls>>
    /\ UNCHANGED outsideBash

\* asyncio.wait returns, with the monitor task done or at the timeout, the
\* monitor task having started by then; an idle window without a prompt is
\* interrupted
WaitReturn ==
    /\ b_pc = "waiting"
    /\ w_monitor # "start"
    /\ b_pc' = "idle"
    /\ IF w_status = "idle" /\ w_shell # <<>>
       THEN /\ w_shell' = Tail(w_shell)
            /\ b_result' = "error"
       ELSE /\ b_result' = ReportedStatus
            /\ UNCHANGED w_shell
    /\ UNCHANGED <<w_status, w_monitor, w_writes, b_calls>>
    /\ UNCHANGED outsideBash

\* _monitor_command_execution starts: status "running", sleep(0.1)
MonitorStart ==
    /\ w_monitor = "start"
    /\ w_status' = "running"
    /\ w_monitor' = "poll"
    /\ UNCHANGED <<w_shell, w_writes, b_pc, b_calls, b_result>>
    /\ UNCHANGED outsideBash

\* the polling loop ends when the shell has no children; after sleep(0.5)
\* the status is "idle" and _extract_last_cmd_exit_code begins
MonitorPoll ==
    /\ w_monitor = "poll"
    /\ ~HasChildProcesses
    /\ w_status' = "idle"
    /\ w_monitor' = "exit_code"
    /\ UNCHANGED <<w_shell, w_writes, b_pc, b_calls, b_result>>
    /\ UNCHANGED outsideBash

\* _extract_last_cmd_exit_code returns once the shell has no children, and
\* "self.monitor_task = None"
MonitorEnd ==
    /\ w_monitor = "exit_code"
    /\ ~HasChildProcesses
    /\ w_monitor' = "none"
    /\ UNCHANGED <<w_status, w_shell, w_writes, b_pc, b_calls, b_result>>
    /\ UNCHANGED outsideBash

\* the command the shell runs ends; the shell goes on to the next one
CommandEnds ==
    /\ w_shell # <<>>
    /\ w_shell' = Tail(w_shell)
    /\ UNCHANGED <<w_status, w_monitor, w_writes, b_pc, b_calls, b_result>>
    /\ UNCHANGED outsideBash

\* a started window at its prompt
InitBash ==
    /\ StreamIdle
    /\ AgentIdle
    /\ MgrIdle
    /\ cfg \in {c \in Configs : c.exception_types = {}}
    /\ statusExists = FALSE
    /\ tars = 0
    /\ RunStart
    /\ RCIdle
    /\ EnumIdle
    /\ PruneIdle
    /\ SumIdle
    /\ RetryIdle
    /\ FileIdle
    /\ w_status = "idle"
    /\ w_monitor = "none"
    /\ w_shell = <<>>
    /\ w_writes = <<>>
    /\ b_pc = "idle"
    /\ b_calls = 0
    /\ b_result = "none"

NextBash ==
    \/ BashCall
    \/ WaitForCompletion
    \/ SleepReturn
    \/ WaitReturn
    \/ MonitorStart
    \/ MonitorPoll
    \/ MonitorEnd
    \/ CommandEnds

SpecBash == InitBash /\ [][NextBash]_vars

\* C32: a Bash call made while an earlier command of the window is still
\* running or still monitored is rejected and writes nothing to the shell.
C32_OneCommandInFlight ==
    [][(b_calls' = b_calls + 1 /\ (w_shell # <<>> \/ Monitored))
          => /\ w_writes' = w_writes
             /\ b_result' \in {"rejected", "error"}]_vars

(***************************************************************************)
(* BashSessionManager: create_window and run_command called by tasks of    *)
(* one event loop.  The RLock is taken by the loop's thread, so a task     *)
(* that finds it held by another task of the loop acquires it again.       *)
(***************************************************************************)
NumClients == 2               \* tasks that call the manager
MaxMgrCalls == 3              \* calls on the manager, all tasks together

Clients == 1..NumClients
WindowNames == {"main", "w2"}

\* a task outside the manager
Outside == [at |-> "idle", name |-> "none", window |-> 0, result |-> "none"]

\* "window_name in self.windows"
Registered(name) == windows[name] # 0

\* window.process is not None and window.process.isalive()
ProcessAlive(w) == \E p \in procs : p.window = w

\* create_window from "window = BashWindow(...)" to the suspension in
\* "await window.start()": the process is spawned, the lock stays held
StartWindow(c, name) ==
    /\ started' = started + 1
    /\ procs' = procs \cup {[window |-> started + 1, name |-> name]}
    /\ lock_depth' = lock_depth + 1
    /\ mpc' = [mpc EXCEPT ![c] = [at |-> "starting", name |-> name,
                                  window |-> started + 1, result |-> "none"]]

\* create_window(name) up to the suspension: an existing name raises
CreateWindowEnter(c) ==
    /\ mpc[c].at = "idle"
    /\ m_calls < MaxMgrCalls
    /\ m_calls' = m_calls + 1
    /\ \E name \in WindowNames :
         IF Registered(name)
         THEN /\ mpc' = [mpc EXCEPT ![c] = [Outside EXCEPT !.result = "RuntimeError"]]
              /\ UNCHANGED <<procs, started, lock_depth, windows>>
         ELSE /\ StartWindow(c, name)
              /\ UNCHANGED windows
    /\ UNCHANGED outsideMgr

\* run_command(command, window_name) up to its first suspension:
\* _get_or_create_window returns a registered window with a live process,
\* replaces one whose process is gone, or creates the window
RunCommandEnter(c) ==
    /\ mpc[c].at = "idle"
    /\ m_calls < MaxMgrCalls
    /\ m_calls' = m_calls + 1
    /\ \E name \in WindowNames :
         IF Registered(name) /\ ProcessAlive(windows[name])
         THEN /\ mpc' = [mpc EXCEPT ![c] = [Outside EXCEPT !.result = "ran"]]
              /\ UNCHANGED <<procs, started, lock_depth, windows>>
         ELSE /\ windows' = [windows EXCEPT ![name] = 0]
              /\ StartWindow(c, name)
    /\ UNCHANGED outsideMgr

\* "await window.start()" returns: the window is registered under its
\* name, the lock is released and the call returns
WindowStarted(c) ==
    /\ mpc[c].at = "starting"
    /\ windows' = [windows EXCEPT ![mpc[c].name] = mpc[c].window]
    /\ lock_depth' = lock_depth - 1
    /\ mpc' = [mpc EXCEPT ![c] = [Outside EXCEPT !.result = "created"]]
    /\ UNCHANGED <<procs, started, m_calls>>
    /\ UNCHANGED outsideMgr

\* the bash process of a registered window exits
ProcessExits ==
    /\ \E p \in procs :
         /\ windows[p.name] = p.window
         /\ procs' = procs \ {p}
    /\ UNCHANGED <<windows, started, lock_depth, mpc, m_calls>>
    /\ UNCHANGED outsideMgr

\* BashSessionManager.__init__
InitMgr ==
    /\ StreamIdle
    /\ AgentIdle
    /\ cfg \in {c \in Configs : c.exception_types = {}}
    /\ statusExists = FALSE
    /\ tars = 0
    /\ RunStart
    /\ RCIdle
    /\ EnumIdle
    /\ PruneIdle
    /\ SumIdle
    /\ RetryIdle
    /\ FileIdle
    /\ BashIdle
    /\ windows = [n \in WindowNames |-> 0]
    /\ procs = {}
    /\ started = 0
    /\ lock_depth = 0
    /\ mpc = [c \in Clients |-> Outside]
    /\ m_calls = 0

NextMgr ==
    \/ \E c \in Clients : CreateWindowEnter(c)
    \/ \E c \in Clients : RunCommandEnter(c)
    \/ \E c \in Clients : WindowStarted(c)
    \/ ProcessExits

SpecMgr == InitMgr /\ [][NextMgr]_vars

\* the live processes started for a window name
ProcessesOf(name) == {p \in procs : p.name = name}

\* C33: for each window name there is at most one live bash process, and
\* a live process whose start is over is the one registered under its name.
C33_OneProcessPerWindowName ==
    /\ \A name \in WindowNames : Cardinality(ProcessesOf(name)) <= 1
    /\ \A p \in procs :
          \/ windows[p.name] = p.window
          \/ \E c \in Clients : mpc[c].at = "starting" /\ mpc[c].window = p.window

(***************************************************************************)
(* The interactive agent: runner.main reads a line, BaseAgent.run_turn     *)
(* compresses the context when needed and calls the LLM, execute_tools     *)
(* runs the tool calls of the first response.                              *)
(***************************************************************************)
MaxInputs == 3                \* lines the user types
MaxBlocks == 2                \* tool_use blocks of one LLM response
MaxCompactions == 2           \* calls of _execute_compression

KeptCountDefault == 10        \* result.get("kept_count", 10)

\* the values of compression_config.keep_recent_messages explored
KeepRecentChoices == {4, KeptCountDefault}

\* Message(role, type, content_core): id is fresh, message_id is left None;
\* uses are the ids of the tool_use blocks of content_core, tool_use_id the
\* id a tool_result answers, ref the message ids a summary covers
StoredMessage(mid, role, type, uses, tool_use_id, ref) ==
    [mid |-> mid, message_id |-> None, role |-> role, type |-> type,
     uses |-> uses, tool_use_id |-> tool_use_id, ref |-> ref]

\* add_user_message
UserText(mid) == StoredMessage(mid, "user", "text", {}, 0, {})

\* run_turn's assistant_message: type "tool_use" when a block is one,
\* content_core the response's list of blocks
AssistantResponse(mid, uses) ==
    StoredMessage(mid, "assistant", IF uses # {} THEN "tool_use" ELSE "text",
                  uses, 0, {})

\* execute_tools' tool_result_msg
ToolResultMessage(mid, tool_use_id) ==
    StoredMessage(mid, "user", "tool_result", {}, tool_use_id, {})

\* _execute_compression's compacted_msg
CompactedMessage(mid, ref) ==
    StoredMessage(mid, "user", "compacted_message", {}, 0, ref)

\* lst[start:] as Python computes it, on a sequence indexed from 1
PySliceFrom(ms, start) ==
    LET len == Len(ms)
        from == IF start < 0
                THEN (IF len + start < 0 THEN 0 ELSE len + start)
                ELSE (IF start > len THEN len ELSE start)
    IN SubSeq(ms, from + 1, len)

\* _group_messages_by_message_id, as the positions where a group starts:
\* the first message, a changed message_id, or a message_id of None
GroupStarts(ms) ==
    {i \in DOMAIN ms :
        \/ i = 1
        \/ ms[i].message_id # ms[i - 1].message_id
        \/ ms[i].message_id = None}

\* step 2 of compact_context_messages: the start of the last group from
\* which at least keep_recent_messages messages follow, 0 when there is none
SplitStart(ms) ==
    LET enough == {i \in GroupStarts(ms) : Len(ms) - i + 1 >= keep_recent_messages}
    IN IF enough = {} THEN 0 ELSE CHOOSE i \in enough : \A j \in enough : j <= i

\* msg.content_core.get("id") on a tool_use message: content_core is the
\* list of blocks, which has no get
GetRaises(m) == m.type = "tool_use"

\* "id" in msg.content_core: never true of a list of blocks
VisibleUseIds(m) == IF m.type = "tool_use" /\ ~GetRaises(m) THEN m.uses ELSE {}

\* variant: step 5 finds its message service and the LLM returns a summary
M_CompactContextMessages(ms) ==
    LET split == SplitStart(ms)
        before == {i \in DOMAIN ms : i < split}
    IN IF split = 0 \/ split = 1
       THEN [kind |-> "skip", ids |-> {}]
       ELSE IF \E i \in before : GetRaises(ms[i])
       THEN [kind |-> "AttributeError", ids |-> {}]
       ELSE [kind |-> "compacted", ids |-> {ms[i].mid : i \in before}]

\* compact_context_messages: "skip" when fewer than keep_recent_messages
\* messages precede the end or nothing precedes the split; steps 3 and 4
\* call get on every tool_use message before the split (the tool_use ids
\* in range are never visible, so a kept tool_result starts the backward
\* search of step 3, and step 4 reads each message to compress) and raise
\* AttributeError; step 5 names MessageService, which the module neither
\* defines nor imports, and raises NameError
CompactContextMessages(ms) ==
    LET split == SplitStart(ms)
        before == {i \in DOMAIN ms : i < split}
    IN IF split = 0 \/ split = 1
       THEN [kind |-> "skip", ids |-> {}]
       ELSE IF \E i \in before : GetRaises(ms[i])
       THEN [kind |-> "AttributeError", ids |-> {}]
       ELSE [kind |-> "NameError", ids |-> {}]

\* "in_context_messages[len(in_context_messages) - result.get("kept_count",
\* 10):]": the result has no kept_count
KeptAfterCompression(ms) == PySliceFrom(ms, Len(ms) - KeptCountDefault)

\* _execute_compression: the history after it; a result without a
\* compacted message and an exception are logged and change nothing
ExecuteCompression(ms, mid) ==
    LET result == CompactContextMessages(ms)
    IN IF result.kind = "compacted"
       THEN <<CompactedMessage(mid, result.ids)>> \o KeptAfterCompression(ms)
       ELSE ms

\* the tool_use ids of a history that no tool_result of it answers
Unanswered(ms) ==
    UNION {ms[i].uses : i \in DOMAIN ms} \ {ms[i].tool_use_id : i \in DOMAIN ms}

\* runner.main reads a line: "clear" empties the store, any other text is
\* added as a user message and a turn begins
UserInput ==
    /\ r_pc = "input"
    /\ n_inputs < MaxInputs
    /\ n_inputs' = n_inputs + 1
    /\ \/ /\ store' = <<>>
          /\ UNCHANGED <<r_pc, next_mid>>
       \/ /\ store' = Append(store, UserText(next_mid + 1))
          /\ next_mid' = next_mid + 1
          /\ r_pc' = "turn"
    /\ UNCHANGED <<sent, keep_recent_messages, next_use, n_compactions, llm_calls,
                   compress_log>>
    /\ UNCHANGED outsideAgent

\* run_turn: compression when should_compress says so, then the LLM call;
\* a response is stored as the assistant message; nblocks is the number of
\* tool_use blocks of the response, -1 for a call that failed twice.  After
\* the first turn main runs the tools, after the second it reads a line.
RunTurn ==
    /\ r_pc \in {"turn", "turn_after_tools"}
    /\ \E compress \in BOOLEAN, nblocks \in (0 - 1)..MaxBlocks :
         LET compressing == compress /\ n_compactions < MaxCompactions
             context == IF compressing
                        THEN ExecuteCompression(store, next_mid + 1)
                        ELSE store
             replaced == context # store
             mids == IF replaced THEN next_mid + 1 ELSE next_mid
             uses == (next_use + 1)..(next_use + nblocks)
         IN /\ sent' = context
            /\ llm_calls' = llm_calls + 1
            /\ n_compactions' = IF compressing THEN n_compactions + 1 ELSE n_compactions
            /\ compress_log' = IF compressing
                               THEN CompactContextMessages(store).kind
                               ELSE "none"
            /\ IF nblocks < 0
               THEN /\ store' = context
                    /\ next_mid' = mids
                    /\ r_pc' = "input"
                    /\ UNCHANGED next_use
               ELSE /\ store' = Append(context, AssistantResponse(mids + 1, uses))
                    /\ next_mid' = mids + 1
                    /\ next_use' = next_use + nblocks
                    /\ r_pc' = IF nblocks > 0 /\ r_pc = "turn"
                               THEN "tools" ELSE "input"
    /\ UNCHANGED <<keep_recent_messages, n_inputs>>
    /\ UNCHANGED outsideAgent

\* the tool_result messages execute_tools adds for the blocks from..last
RECURSIVE ResultsFor(_, _, _)
ResultsFor(from, last, mid) ==
    IF from > last THEN <<>>
    ELSE <<ToolResultMessage(mid, from)>> \o ResultsFor(from + 1, last, mid + 1)

\* execute_tools on the tool_use blocks of the response, in their order;
\* main then runs the second turn
ExecuteTools ==
    /\ r_pc = "tools"
    /\ LET uses == store[Len(store)].uses
           first_use == next_use - Cardinality(uses) + 1
       IN /\ store' = store \o ResultsFor(first_use, next_use, next_mid + 1)
          /\ next_mid' = next_mid + Cardinality(uses)
    /\ r_pc' = "turn_after_tools"
    /\ UNCHANGED <<sent, keep_recent_messages, next_use, n_compactions, llm_calls,
                   n_inputs, compress_log>>
    /\ UNCHANGED outsideAgent

\* a new agent with an empty store
InitAgent ==
    /\ StreamIdle
    /\ cfg \in {c \in Configs : c.exception_types = {}}
    /\ statusExists = FALSE
    /\ tars = 0
    /\ RunStart
    /\ RCIdle
    /\ EnumIdle
    /\ PruneIdle
    /\ SumIdle
    /\ RetryIdle
    /\ FileIdle
    /\ BashIdle
    /\ MgrIdle
    /\ store = <<>>
    /\ r_pc = "input"
    /\ sent = <<>>
    /\ keep_recent_messages \in KeepRecentChoices
    /\ next_mid = 0
    /\ next_use = 0
    /\ n_compactions = 0
    /\ llm_calls = 0
    /\ n_inputs = 0
    /\ compress_log = "none"

NextAgent ==
    \/ UserInput
    \/ RunTurn
    \/ ExecuteTools

SpecAgent == InitAgent /\ [][NextAgent]_vars

\* the run_turn steps that called _execute_compression
CompressionStep == n_compactions' = n_compactions + 1

C36_NoUnansweredToolUse ==
    [][llm_calls' = llm_calls + 1 => Unanswered(sent') = {}]_vars

(***************************************************************************)
(* BashOutputStreamer: collectors and send_final_output put outputs into   *)
(* bash_output_queue, the _sender_loop task takes them out and sends them  *)
(* to the backend, shutdown() stops the streamer.                          *)
(***************************************************************************)
MaxSessions == 2              \* bash sessions streamed
MaxQueue == 2                 \* intermediate outputs are put while the queue is shorter
MaxFails == 2                 \* sends the backend refuses
MaxWaits == 2                 \* sleeps of shutdown's wait loop before its timeout

Sessions == 1..MaxSessions

\* PendingBashOutput, reduced to its session and is_final
PendingBashOutput(sid, is_final) == [sid |-> sid, is_final |-> is_final]

\* the sender holds nothing
NoPending == PendingBashOutput(0, FALSE)

\* the sessions with a final output in a queue
FinalsIn(q) == {q[i].sid : i \in {j \in DOMAIN q : q[j].is_final}}

\* the final outputs of a queue, in its order
FinalOutputs(q) == SelectSeq(q, LAMBDA o : o.is_final)

\* start_streaming: a session not yet streamed gets its collector and its
\* send_final_output task
StartStreaming(sid) ==
    /\ d_pc = "idle"
    /\ sessions[sid] = "none"
    /\ sessions' = [sessions EXCEPT ![sid] = "running"]
    /\ UNCHANGED <<out_queue, s_pc, s_item, sent_ok, shutdown_event, d_pc, d_waits,
                   at_shutdown, send_fails>>
    /\ UNCHANGED outsideStream

\* _collector_loop: the command still runs and its output has changed, an
\* intermediate output is put
CollectorPut(sid) ==
    /\ sessions[sid] = "running"
    /\ ~shutdown_event
    /\ Len(out_queue) < MaxQueue
    /\ out_queue' = Append(out_queue, PendingBashOutput(sid, FALSE))
    /\ UNCHANGED <<s_pc, s_item, sent_ok, shutdown_event, d_pc, d_waits,
                   at_shutdown, send_fails, sessions>>
    /\ UNCHANGED outsideStream

\* send_final_output: the command's finish_event is set, the final output
\* is put and the collector is cancelled
SendFinalOutput(sid) ==
    /\ sessions[sid] = "running"
    /\ out_queue' = Append(out_queue, PendingBashOutput(sid, TRUE))
    /\ sessions' = [sessions EXCEPT ![sid] = "finished"]
    /\ UNCHANGED <<s_pc, s_item, sent_ok, shutdown_event, d_pc, d_waits,
                   at_shutdown, send_fails>>
    /\ UNCHANGED outsideStream

\* _sender_loop evaluates "while not self.shutdown_event.is_set()"
SenderLoopTop ==
    /\ s_pc = "top"
    /\ s_pc' = IF shutdown_event THEN "stopped" ELSE "get"
    /\ UNCHANGED <<out_queue, s_item, sent_ok, shutdown_event, d_pc, d_waits,
                   at_shutdown, send_fails, sessions>>
    /\ UNCHANGED outsideStream

\* bash_output_queue.get() returns the oldest output
SenderGet ==
    /\ s_pc = "get"
    /\ out_queue # <<>>
    /\ s_item' = Head(out_queue)
    /\ out_queue' = Tail(out_queue)
    /\ s_pc' = "send"
    /\ UNCHANGED <<sent_ok, shutdown_event, d_pc, d_waits, at_shutdown, send_fails,
                   sessions>>
    /\ UNCHANGED outsideStream

\* the get times out after a second on an empty queue: continue
SenderGetTimeout ==
    /\ s_pc = "get"
    /\ out_queue = <<>>
    /\ s_pc' = "top"
    /\ UNCHANGED <<out_queue, s_item, sent_ok, shutdown_event, d_pc, d_waits,
                   at_shutdown, send_fails, sessions>>
    /\ UNCHANGED outsideStream

\* _send_output returns True
SendSucceeds ==
    /\ s_pc = "send"
    /\ sent_ok' = IF s_item.is_final THEN sent_ok \cup {s_item.sid} ELSE sent_ok
    /\ s_item' = NoPending
    /\ s_pc' = "top"
    /\ UNCHANGED <<out_queue, shutdown_event, d_pc, d_waits, at_shutdown, send_fails,
                   sessions>>
    /\ UNCHANGED outsideStream

\* _send_output returns False: a final output is put back, another dropped
SendFails ==
    /\ s_pc = "send"
    /\ send_fails < MaxFails
    /\ send_fails' = send_fails + 1
    /\ out_queue' = IF s_item.is_final THEN Append(out_queue, s_item) ELSE out_queue
    /\ s_item' = NoPending
    /\ s_pc' = "top"
    /\ UNCHANGED <<sent_ok, shutdown_event, d_pc, d_waits, at_shutdown, sessions>>
    /\ UNCHANGED outsideStream

\* the sender task can run at once
SenderReady == s_pc = "top" \/ (s_pc = "get" /\ out_queue # <<>>)

\* shutdown() sets shutdown_event and collects the tasks of the sessions
ShutdownBegin ==
    /\ d_pc = "idle"
    /\ shutdown_event' = TRUE
    /\ at_shutdown' = FinalsIn(out_queue)
    /\ d_pc' = "gather"
    /\ UNCHANGED <<out_queue, s_pc, s_item, sent_ok, d_waits, send_fails, sessions>>
    /\ UNCHANGED outsideStream

\* the gather of the collector and final-output tasks ends or times out
\* after 2 s: the tasks of commands still running are cancelled
ShutdownGather ==
    /\ d_pc = "gather"
    /\ sessions' = [sid \in Sessions |->
                      IF sessions[sid] = "running" THEN "cancelled" ELSE sessions[sid]]
    /\ d_pc' = "poll"
    /\ UNCHANGED <<out_queue, s_pc, s_item, sent_ok, shutdown_event, d_waits,
                   at_shutdown, send_fails>>
    /\ UNCHANGED outsideStream

\* one pass of shutdown's wait loop: the queue is emptied and its final
\* outputs are put back; without one the loop ends, with one it sleeps
\* 0.5 s, and the timeout ends it.  The tasks that can run do so before the
\* sleep is over.
ShutdownPoll ==
    /\ d_pc = "poll"
    /\ ~SenderReady
    /\ out_queue' = FinalOutputs(out_queue)
    /\ IF FinalOutputs(out_queue) = <<>>
       THEN d_pc' = "stop" /\ UNCHANGED d_waits
       ELSE IF d_waits < MaxWaits
       THEN d_waits' = d_waits + 1 /\ UNCHANGED d_pc
       ELSE d_pc' = "stop" /\ UNCHANGED d_waits
    /\ UNCHANGED <<s_pc, s_item, sent_ok, shutdown_event, at_shutdown, send_fails,
                   sessions>>
    /\ UNCHANGED outsideStream

\* shutdown cancels the sender task and returns; a send under way in its
\* thread still ends, accepted or refused, and nothing puts its output back
ShutdownStop ==
    /\ d_pc = "stop"
    /\ IF s_pc = "send"
       THEN \/ /\ sent_ok' = IF s_item.is_final
                              THEN sent_ok \cup {s_item.sid} ELSE sent_ok
               /\ UNCHANGED send_fails
            \/ /\ send_fails < MaxFails
               /\ send_fails' = send_fails + 1
               /\ UNCHANGED sent_ok
       ELSE UNCHANGED <<sent_ok, send_fails>>
    /\ s_item' = NoPending
    /\ s_pc' = "stopped"
    /\ d_pc' = "done"
    /\ UNCHANGED <<out_queue, shutdown_event, d_waits, at_shutdown, sessions>>
    /\ UNCHANGED outsideStream

\* initialize_bash_output_streamer: a started streamer, an empty queue
InitStream ==
    /\ cfg \in {c \in Configs : c.exception_types = {}}
    /\ statusExists = FALSE
    /\ tars = 0
    /\ RunStart
    /\ RCIdle
    /\ EnumIdle
    /\ PruneIdle
    /\ SumIdle
    /\ RetryIdle
    /\ FileIdle
    /\ BashIdle
    /\ MgrIdle
    /\ AgentIdle
    /\ out_queue = <<>>
    /\ s_pc = "top"
    /\ s_item = NoPending
    /\ sent_ok = {}
    /\ shutdown_event = FALSE
    /\ d_pc = "idle"
    /\ d_waits = 0
    /\ at_shutdown = {}
    /\ send_fails = 0
    /\ sessions = [sid \in Sessions |-> "none"]

\* the steps of the sender task
SenderStep ==
    \/ SenderLoopTop
    \/ SenderGet
    \/ SenderGetTimeout
    \/ SendSucceeds
    \/ SendFails

\* the steps of a shutdown() call
ShutdownStep ==
    \/ ShutdownBegin
    \/ ShutdownGather
    \/ ShutdownPoll
    \/ ShutdownStop

NextStream ==
    \/ \E sid \in Sessions : StartStreaming(sid)
    \/ \E sid \in Sessions : CollectorPut(sid)
    \/ \E sid \in Sessions : SendFinalOutput(sid)
    \/ SenderStep
    \/ ShutdownStep

SpecStream == InitStream /\ [][NextStream]_vars

\* the event loop runs the sender task whenever it can run, a send ends,
\* a shutdown() that was called goes on, and the backend refuses at most
\* MaxFails sends
SpecStreamFair ==
    /\ SpecStream
    /\ WF_vars(SenderStep)
    /\ WF_vars(ShutdownGather \/ ShutdownPoll \/ ShutdownStop)

\* C37: every final output put into the queue is eventually accepted by
\* the backend
C37_FinalOutputEventuallySent ==
    \A sid \in Sessions : (sid \in FinalsIn(out_queue)) ~> (sid \in sent_ok)

\* C38: when the backend has refused no send, shutdown() returns only
\* after every final output that was queued when it began has been accepted
C38_ShutdownDeliversFinals ==
    (d_pc = "done" /\ send_fails = 0) => at_shutdown \subseteq sent_ok
====
